---- MODULE Spec2Model ----
(***************************************************************************)
(* A model of the job-discovery pipeline of YC-Go-Scraper:                 *)
(*   run_scraper.py                       the two-phase entry point        *)
(*   src/scrapers/greenhouse_scraper.py   the structured-API path          *)
(*   src/scrapers/job_scraper_engine.py   company career pages, job boards *)
(*   src/dashboard/job_tracker_v3.py      the tracker's content acquirer   *)
(* Texts (titles, locations, page text) are sequences of one-character     *)
(* strings, so that substring tests, trimming and splitting are computed   *)
(* as Python computes them.  URLs are compared only for equality and       *)
(* emptiness and are plain strings.                                        *)
(***************************************************************************)
EXTENDS Integers, Sequences, FiniteSets, TLC

(***************************************************************************)
(* Bounds of the model.                                                    *)
(***************************************************************************)
MaxRuns == 2

(***************************************************************************)
(* Text                                                                    *)
(***************************************************************************)
UpperCase ==
    <<"A","B","C","D","E","F","G","H","I","J","K","L","M",
      "N","O","P","Q","R","S","T","U","V","W","X","Y","Z">>

LowerCase ==
    <<"a","b","c","d","e","f","g","h","i","j","k","l","m",
      "n","o","p","q","r","s","t","u","v","w","x","y","z">>

Digits == {"0","1","2","3","4","5","6","7","8","9"}

Range(s) == { s[i] : i \in 1..Len(s) }

\* str.lower() on one character
LowerChar(c) ==
    IF \E i \in 1..26 : UpperCase[i] = c
    THEN LowerCase[CHOOSE i \in 1..26 : UpperCase[i] = c]
    ELSE c

\* str.lower()
lower(s) == [i \in 1..Len(s) |-> LowerChar(s[i])]

UpperChar(c) ==
    IF \E i \in 1..26 : LowerCase[i] = c
    THEN UpperCase[CHOOSE i \in 1..26 : LowerCase[i] = c]
    ELSE c

\* str.capitalize(): the first character upper-cased, the rest lower-cased
capitalize(s) ==
    [i \in 1..Len(s) |-> IF i = 1 THEN UpperChar(s[i]) ELSE LowerChar(s[i])]

\* Python's  k in s  for strings
Contains(s, k) ==
    \E i \in 1..(Len(s) - Len(k) + 1) : SubSeq(s, i, i + Len(k) - 1) = k

\* any(k in s for k in keywords)
AnyIn(keywords, s) == \E j \in 1..Len(keywords) : Contains(s, keywords[j])

\* \w of Python's re, on the characters the model uses
IsWordChar(c) ==
    c \in Range(UpperCase) \cup Range(LowerCase) \cup Digits \cup {"_"}

\* \b of Python's re: between position i-1 and position i of s (1-based)
WordBoundary(s, i) ==
    LET before == i > 1 /\ i - 1 <= Len(s) /\ IsWordChar(s[i - 1])
        after  == i >= 1 /\ i <= Len(s) /\ IsWordChar(s[i])
    IN  before # after

\* s[i..j] matches one of the alternatives, as a whole
MatchesAt(s, i, j, alternatives) ==
    i >= 1 /\ j <= Len(s) /\ i <= j /\ SubSeq(s, i, j) \in alternatives

IsSpace(c) == c \in {" ", "\t", "\n", "\r"}

(***************************************************************************)
(* greenhouse_scraper.py: the relevance predicates                         *)
(***************************************************************************)
SENIOR_ROLE_KEYWORDS ==
    << <<"s","e","n","i","o","r">>,
       <<"s","r",".">>,
       <<"l","e","a","d">>,
       <<"s","t","a","f","f">>,
       <<"p","r","i","n","c","i","p","a","l">>,
       <<"m","a","n","a","g","e","r">>,
       <<"d","i","r","e","c","t","o","r">>,
       <<"a","r","c","h","i","t","e","c","t">>,
       <<"v","p">>,
       <<"h","e","a","d"," ","o","f">>,
       <<"c","h","i","e","f">>,
       <<"e","x","e","c","u","t","i","v","e">> >>

EARLY_CAREER_KEYWORDS ==
    << <<"i","n","t","e","r","n">>,
       <<"i","n","t","e","r","n","s","h","i","p">>,
       <<"n","e","w"," ","g","r","a","d">>,
       <<"n","e","w"," ","g","r","a","d","u","a","t","e">>,
       <<"a","s","s","o","c","i","a","t","e">>,
       <<"j","u","n","i","o","r">>,
       <<"e","n","t","r","y"," ","l","e","v","e","l">>,
       <<"e","n","t","r","y","-","l","e","v","e","l">>,
       <<"r","o","t","a","t","i","o","n","a","l">>,
       <<"c","o","-","o","p">>,
       <<"f","e","l","l","o","w">>,
       <<"a","p","p","r","e","n","t","i","c","e">> >>

basic_roles ==
    << <<"e","n","g","i","n","e","e","r">>,
       <<"d","e","v","e","l","o","p","e","r">>,
       <<"a","n","a","l","y","s","t">>,
       <<"s","p","e","c","i","a","l","i","s","t">>,
       <<"c","o","o","r","d","i","n","a","t","o","r">> >>

\* re.search(r'\b(i|ii|iii|1|2|3)\b', lower_title)
LevelTokens ==
    { <<"i">>, <<"i","i">>, <<"i","i","i">>, <<"1">>, <<"2">>, <<"3">> }

HasLevelToken(s) ==
    \E i \in 1..Len(s) : \E j \in i..Len(s) :
        /\ MatchesAt(s, i, j, LevelTokens)
        /\ WordBoundary(s, i)
        /\ WordBoundary(s, j + 1)

\* re.search(r'\b(5|6|7|8|9|10)\+?\s*(years?|yrs?)\b', lower_title)
YearNumbers == { <<"5">>, <<"6">>, <<"7">>, <<"8">>, <<"9">>, <<"1","0">> }

YearWords ==
    { <<"y","e","a","r">>, <<"y","e","a","r","s">>,
      <<"y","r">>, <<"y","r","s">> }

HasYearsRequirement(s) ==
    \E i \in 1..Len(s) : \E j \in i..Len(s) :
    \E k \in (j + 1)..Len(s) : \E m \in k..Len(s) :
        /\ WordBoundary(s, i)
        /\ MatchesAt(s, i, j, YearNumbers)
        \* between the number and the unit: \+? then \s*
        /\ \/ \A q \in (j + 1)..(k - 1) : IsSpace(s[q])
           \/ /\ j + 1 <= k - 1
              /\ s[j + 1] = "+"
              /\ \A q \in (j + 2)..(k - 1) : IsSpace(s[q])
        /\ MatchesAt(s, k, m, YearWords)
        /\ WordBoundary(s, m + 1)

\* A mutant of is_early_career: the senior-marker test is lost.
is_early_career_no_senior_test(title) ==
    LET lower_title == lower(title)
    IN  \/ AnyIn(EARLY_CAREER_KEYWORDS, lower_title)
        \/ HasLevelToken(lower_title)
        \/ AnyIn(basic_roles, lower_title) /\ ~HasYearsRequirement(lower_title)

is_early_career(title) ==
    LET lower_title == lower(title)
    IN  IF AnyIn(SENIOR_ROLE_KEYWORDS, lower_title) THEN FALSE
        ELSE IF AnyIn(EARLY_CAREER_KEYWORDS, lower_title) THEN TRUE
        ELSE IF HasLevelToken(lower_title) THEN TRUE
        ELSE IF AnyIn(basic_roles, lower_title)
             THEN ~HasYearsRequirement(lower_title)
        ELSE FALSE

usa_identifiers ==
    << <<"u","n","i","t","e","d"," ","s","t","a","t","e","s">>,
       <<"u","s","a">>,
       <<"u","s">>,
       <<"r","e","m","o","t","e">>,
       <<"u","n","i","t","e","d"," ","s","t","a","t","e","s"," ","o","f"," ","a","m","e","r","i","c","a">>,
       <<"n","e","w"," ","y","o","r","k">>,
       <<"s","a","n"," ","f","r","a","n","c","i","s","c","o">>,
       <<"s","e","a","t","t","l","e">>,
       <<"a","u","s","t","i","n">>,
       <<"b","o","s","t","o","n">>,
       <<"c","h","i","c","a","g","o">>,
       <<"l","o","s"," ","a","n","g","e","l","e","s">>,
       <<"a","t","l","a","n","t","a">>,
       <<"d","a","l","l","a","s">>,
       <<"h","o","u","s","t","o","n">>,
       <<"m","i","a","m","i">>,
       <<"d","e","n","v","e","r">>,
       <<"p","h","o","e","n","i","x">>,
       <<"p","h","i","l","a","d","e","l","p","h","i","a">>,
       <<"w","a","s","h","i","n","g","t","o","n">>,
       <<"d","c">>,
       <<"n","a","s","h","v","i","l","l","e">>,
       <<"p","o","r","t","l","a","n","d">>,
       <<"s","a","n"," ","d","i","e","g","o">>,
       <<"m","i","n","n","e","a","p","o","l","i","s">>,
       <<"d","e","t","r","o","i","t">>,
       <<"c","l","e","v","e","l","a","n","d">>,
       <<"p","i","t","t","s","b","u","r","g","h">>,
       <<"c","h","a","r","l","o","t","t","e">>,
       <<"r","a","l","e","i","g","h">>,
       <<"o","r","l","a","n","d","o">>,
       <<"t","a","m","p","a">>,
       <<"j","a","c","k","s","o","n","v","i","l","l","e">>,
       <<"c","o","l","u","m","b","u","s">> >>

\* Python's None where a text is expected: a one-element sequence whose
\* element is no character
NoneValue == <<"None">>

IsNone(v) == v = NoneValue

\* A mutant of is_in_usa: every named location is accepted.
is_in_usa_any_location(location) == ~(IsNone(location) \/ location = <<>>)

is_in_usa(location) ==
    IF IsNone(location) \/ location = <<>> THEN FALSE
    ELSE AnyIn(usa_identifiers, lower(location))

(***************************************************************************)
(* The store: the job_applications table, as the scrapers use it.  Rows    *)
(* are kept in insertion order.  The table is keyed by URL: the store      *)
(* answers an insert for a URL it holds with a uniqueness error.           *)
(***************************************************************************)
StoreURLs(st) == { st[i].URL : i \in 1..Len(st) }

RowsFor(st, url) == { i \in 1..Len(st) : st[i].URL = url }

\* table('job_applications').select(...).eq('URL', url).execute().data
StoreSelectByURL(st, url) == SelectSeq(st, LAMBDA r : r.URL = url)

\* what the store may answer to a write, besides the uniqueness conflict:
\* a row-level-security denial, a payload it cannot accept
WriteFaults == {"none", "rls", "format"}

\* dict.get(key): None when the key is absent
Get(d, key) == IF key \in DOMAIN d THEN d[key] ELSE NoneValue

\* the row the table keeps: its columns, NULL where the payload has no
\* value, Status defaulting to "Not Applied"
StoreRow(row) ==
    [Title |-> Get(row, "Title"), Company |-> Get(row, "Company"),
     Location |-> Get(row, "Location"), Salary |-> Get(row, "Salary"),
     Type |-> Get(row, "Type"), URL |-> row.URL,
     Status |-> IF "Status" \in DOMAIN row THEN row.Status ELSE "Not Applied"]

\* A mutant of StoreInsert: a table without the unique key on URL.
StoreInsertNoUniqueKey(st, row, fault) ==
    IF fault # "none" THEN [store |-> st, error |-> fault]
    ELSE [store |-> Append(st, StoreRow(row)), error |-> "none"]

\* table('job_applications').insert(row).execute()
StoreInsert(st, row, fault) ==
    IF fault # "none" THEN [store |-> st, error |-> fault]
    ELSE IF row.URL \in StoreURLs(st)
         THEN [store |-> st, error |-> "duplicate"]
    ELSE [store |-> Append(st, StoreRow(row)), error |-> "none"]

(***************************************************************************)
(* greenhouse_scraper.py: the structured-API path                          *)
(***************************************************************************)
\* check_if_job_exists: a lookup that raises is answered False
gh_check_if_job_exists(st, url, lookup_ok) ==
    IF ~lookup_ok THEN FALSE
    ELSE Len(StoreSelectByURL(st, url)) > 0

\* A mutant of gh_save_to_supabase: a uniqueness conflict is answered True.
gh_save_to_supabase_duplicate_ok(st, job_details, fault) ==
    LET r == StoreInsert(st, job_details, fault)
    IN  [store |-> r.store, ok |-> r.error \in {"none", "duplicate"},
         error |-> r.error]

\* save_to_supabase: True when the insert went through, False on any error
gh_save_to_supabase(st, job_details, fault) ==
    LET r == StoreInsert(st, job_details, fault)
    IN  [store |-> r.store, ok |-> r.error = "none", error |-> r.error]

T_NA == <<"N","/","A">>

\* job.get('location', {}).get('name', 'N/A')
JobLocation(job) ==
    IF job.location.kind = "missing" THEN T_NA ELSE job.location.name

\* a posting on which the loop body raises: a null location object has no
\* .get, a null title has no .lower
JobRaises(job) == job.location.kind = "null" \/ IsNone(job.title)

JobPasses(job) == is_early_career(job.title) /\ is_in_usa(JobLocation(job))

FilteredJob(job, company_name) ==
    [title |-> job.title, location |-> JobLocation(job),
     url |-> job.absolute_url, company |-> capitalize(company_name),
     job_type |-> <<>>]

\* A mutant of scrape_greenhouse_jobs: the request error is not caught.
scrape_greenhouse_jobs_uncaught(company_name, resp) ==
    IF resp.kind = "error" THEN [jobs |-> <<>>, raised |-> TRUE]
    ELSE IF \E i \in 1..Len(resp.jobs) : JobRaises(resp.jobs[i])
         THEN [jobs |-> <<>>, raised |-> FALSE]
    ELSE LET sel == SelectSeq(resp.jobs, JobPasses)
         IN  [jobs |-> [i \in 1..Len(sel) |-> FilteredJob(sel[i], company_name)],
              raised |-> FALSE]

\* scrape_greenhouse_jobs: resp is what requests.get / raise_for_status /
\* response.json() gave.  Both except clauses return the empty list, so an
\* error on one posting discards the postings already filtered.
scrape_greenhouse_jobs(company_name, resp) ==
    IF resp.kind = "error" THEN [jobs |-> <<>>, raised |-> FALSE]
    ELSE IF \E i \in 1..Len(resp.jobs) : JobRaises(resp.jobs[i])
         THEN [jobs |-> <<>>, raised |-> FALSE]
    ELSE LET sel == SelectSeq(resp.jobs, JobPasses)
         IN  [jobs |-> [i \in 1..Len(sel) |-> FilteredJob(sel[i], company_name)],
              raised |-> FALSE]

\* process_greenhouse_jobs: the database payload of one job
gh_db_payload(job) ==
    [Title |-> job.title, Company |-> job.company,
     Location |-> job.location, URL |-> job.url, Type |-> job.job_type,
     Status |-> "Not Applied"]

(***************************************************************************)
(* The inputs of the model: postings a board may return, and the boards.   *)
(***************************************************************************)
T_SeniorManager == <<"S","e","n","i","o","r"," ","M","a","n","a","g","e","r">>
T_SoftwareEngineerI == <<"S","o","f","t","w","a","r","e"," ","E","n","g","i","n","e","e","r"," ","I">>
T_MarketingIntern == <<"M","a","r","k","e","t","i","n","g"," ","I","n","t","e","r","n">>
T_DataAnalyst == <<"D","a","t","a"," ","A","n","a","l","y","s","t">>
T_JuniorDeveloper == <<"J","u","n","i","o","r"," ","D","e","v","e","l","o","p","e","r">>
T_Remote == <<"R","e","m","o","t","e">>
T_Berlin == <<"B","e","r","l","i","n">>
T_NewYork == <<"N","e","w"," ","Y","o","r","k">>
T_Austin == <<"A","u","s","t","i","n",","," ","T","X">>

LocationNamed(name) == [kind |-> "object", name |-> name]

ApiJob(title, location, url) ==
    [title |-> title, location |-> location, absolute_url |-> url]

P_SeniorManagerRemote == ApiJob(T_SeniorManager, LocationNamed(T_Remote), "gh/1")
P_EngineerRemote == ApiJob(T_SoftwareEngineerI, LocationNamed(T_Remote), "gh/2")
P_EngineerBerlin == ApiJob(T_SoftwareEngineerI, LocationNamed(T_Berlin), "gh/3")
P_InternNewYork == ApiJob(T_MarketingIntern, LocationNamed(T_NewYork), "gh/4")
P_NullLocation == ApiJob(T_DataAnalyst, [kind |-> "null"], "gh/5")
P_NoUrl == ApiJob(T_JuniorDeveloper, LocationNamed(T_Austin), "")

\* config["target_platforms"]["greenhouse"]
Companies == << <<"a","c","m","e">>, <<"b","e","t","a">> >>

\* what the board of a company may answer
Feeds(company) ==
    IF company = Companies[1]
    THEN { <<P_SeniorManagerRemote, P_EngineerRemote, P_EngineerBerlin>> }
    ELSE { <<P_InternNewYork, P_NullLocation>>,
           <<P_NoUrl, P_InternNewYork>>,
           <<P_EngineerRemote>>,
           <<>> }

ApiResponses(company) ==
    {[kind |-> "error"]} \cup { [kind |-> "ok", jobs |-> f] : f \in Feeds(company) }


(***************************************************************************)
(* job_scraper_engine.py: company career pages, job boards                 *)
(***************************************************************************)
\* get_existing_job_urls: the URL column of the whole table, or the empty
\* set when the read raises
get_existing_job_urls(st, lookup_ok) ==
    IF lookup_ok THEN StoreURLs(st) ELSE {}

\* A mutant of check_if_job_exists: the answer of the lookup is inverted.
check_if_job_exists_inverted(st, url, lookup_ok) ==
    IF ~lookup_ok THEN FALSE
    ELSE Len(StoreSelectByURL(st, url)) = 0

\* A mutant of check_if_job_exists: a lookup that raises is answered True.
check_if_job_exists_fail_closed(st, url, lookup_ok) ==
    IF ~lookup_ok THEN TRUE
    ELSE Len(StoreSelectByURL(st, url)) > 0

\* check_if_job_exists: a lookup that raises is answered False
check_if_job_exists(st, url, lookup_ok) ==
    IF ~lookup_ok THEN FALSE
    ELSE Len(StoreSelectByURL(st, url)) > 0

\* get_page_text: trafilatura first; requests + BeautifulSoup only when the
\* import of trafilatura fails.  env says what the libraries did:
\*   env.trafilatura  "missing" (ImportError), "raises" (any other error),
\*                    "nothing" (fetch_url or extract gave None), "text"
\*   env.http         "ok" or "fail" (timeout, connection, bad status)
\*   env.body         the text the library extracted
\* The result carries the calls made: http says whether requests.get ran.
get_page_text(env) ==
    IF env.trafilatura = "missing"
    THEN IF env.http = "ok"
         THEN [raised |-> FALSE, text |-> env.body, http |-> TRUE]
         ELSE [raised |-> FALSE, text |-> NoneValue, http |-> TRUE]
    ELSE IF env.trafilatura = "raises"
         THEN [raised |-> TRUE, text |-> NoneValue, http |-> FALSE]
    ELSE IF env.trafilatura = "text"
         THEN [raised |-> FALSE, text |-> env.body, http |-> FALSE]
    ELSE [raised |-> FALSE, text |-> NoneValue, http |-> FALSE]

\* Python's truth value of a text or None
Truthy(v) == ~IsNone(v) /\ v # <<>>

NoDetails == [none |-> TRUE]

IsNoDetails(d) == "Title" \notin DOMAIN d

\* A mutant of extract_details_with_gemini: an answer without an object
\* gives a dictionary of None values.
extract_details_with_gemini_nojson_as_nulls(answer, url) ==
    IF answer.kind = "error" THEN NoDetails
    ELSE IF answer.kind = "nojson"
    THEN [Title |-> NoneValue, Company |-> NoneValue, Location |-> NoneValue,
          Salary |-> NoneValue, Type |-> NoneValue, URL |-> url]
    ELSE [Title |-> Get(answer.details, "job_title"),
          Company |-> Get(answer.details, "company_name"),
          Location |-> Get(answer.details, "location"),
          Salary |-> Get(answer.details, "salary_range"),
          Type |-> Get(answer.details, "job_type"),
          URL |-> url]

\* extract_details_with_gemini: answer is what the service call and the
\* parse of its text gave: "error" (the call raised), "nojson" (no object
\* could be parsed), or "object" with the parsed dictionary
extract_details_with_gemini(answer, url) ==
    IF answer.kind # "object" THEN NoDetails
    ELSE [Title |-> Get(answer.details, "job_title"),
          Company |-> Get(answer.details, "company_name"),
          Location |-> Get(answer.details, "location"),
          Salary |-> Get(answer.details, "salary_range"),
          Type |-> Get(answer.details, "job_type"),
          URL |-> url]

\* A mutant of save_to_supabase: the row of a URL the table holds is
\* deleted and the new row is written in its place at the end.
save_to_supabase_delete_first(st, job_details, fault) ==
    IF fault # "none" THEN [store |-> st, ok |-> FALSE, error |-> fault]
    ELSE [store |-> Append(SelectSeq(st, LAMBDA r : r.URL # job_details.URL),
                           StoreRow(job_details)),
          ok |-> TRUE, error |-> "none"]

\* save_to_supabase and save_job_to_database: True when the insert went
\* through, False on any error
save_to_supabase(st, job_details, fault) ==
    LET r == StoreInsert(st, job_details, fault)
    IN  [store |-> r.store, ok |-> r.error = "none", error |-> r.error]

engine_basic_roles ==
    << <<"e","n","g","i","n","e","e","r">>,
       <<"d","e","v","e","l","o","p","e","r">>,
       <<"a","n","a","l","y","s","t">>,
       <<"s","p","e","c","i","a","l","i","s","t">> >>

\* any(word.lower() in s for word in words)
AnyLowerIn(words, s) == \E j \in 1..Len(words) : Contains(s, lower(words[j]))

\* A mutant of should_process_job: the include keywords are tested before
\* the exclude keywords.
should_process_job_include_first(job_details, config) ==
    IF IsNoDetails(job_details) \/ ~Truthy(job_details.Title) THEN FALSE
    ELSE
    LET title == lower(job_details.Title)
        location == IF IsNone(job_details.Location) THEN <<>>
                    ELSE lower(job_details.Location)
        exclude_keywords == config.targeting.exclude_keywords
        include_keywords == config.targeting.include_keywords
        target_locations == config.targeting.locations
    IN  IF ~AnyLowerIn(include_keywords, title)
           /\ (AnyLowerIn(exclude_keywords, title)
                \/ ~AnyIn(engine_basic_roles, title)) THEN FALSE
        ELSE IF target_locations # <<>>
                /\ ~AnyLowerIn(target_locations, location) THEN FALSE
        ELSE TRUE

\* A mutant of should_process_job: every job passes.
should_process_job_always(job_details, config) == TRUE

\* A mutant of should_process_job: details without a title are let through.
should_process_job_untitled(job_details, config) ==
    IF IsNoDetails(job_details) THEN FALSE
    ELSE IF ~Truthy(job_details.Title) THEN TRUE
    ELSE
    LET title == lower(job_details.Title)
        location == IF IsNone(job_details.Location) THEN <<>>
                    ELSE lower(job_details.Location)
        exclude_keywords == config.targeting.exclude_keywords
        include_keywords == config.targeting.include_keywords
        target_locations == config.targeting.locations
    IN  IF AnyLowerIn(exclude_keywords, title) THEN FALSE
        ELSE IF ~AnyLowerIn(include_keywords, title)
                /\ ~AnyIn(engine_basic_roles, title) THEN FALSE
        ELSE IF target_locations # <<>>
                /\ ~AnyLowerIn(target_locations, location) THEN FALSE
        ELSE TRUE

should_process_job(job_details, config) ==
    IF IsNoDetails(job_details) \/ ~Truthy(job_details.Title) THEN FALSE
    ELSE
    LET title == lower(job_details.Title)
        location == IF IsNone(job_details.Location) THEN <<>>
                    ELSE lower(job_details.Location)
        exclude_keywords == config.targeting.exclude_keywords
        include_keywords == config.targeting.include_keywords
        target_locations == config.targeting.locations
    IN  IF AnyLowerIn(exclude_keywords, title) THEN FALSE
        ELSE IF ~AnyLowerIn(include_keywords, title)
                /\ ~AnyIn(engine_basic_roles, title) THEN FALSE
        ELSE IF target_locations # <<>>
                /\ ~AnyLowerIn(target_locations, location) THEN FALSE
        ELSE TRUE

\* scrape_google_careers: page says what the rendered listing page held:
\*   page.raises    the driver could not be set up, or loading the page or
\*                  the first element lookup raised
\*   page.elements  the hrefs of the links inside the job elements
\*   page.selectors for each alternative selector, the hrefs of its elements
\*   page.source    the URLs the two patterns find in the page source
\* Only hrefs of the two job-result patterns are in these lists.  The result
\* is list(set(job_links)): a set.
FirstNonEmpty(lists) ==
    IF \E i \in 1..Len(lists) : lists[i] # <<>>
    THEN lists[CHOOSE i \in 1..Len(lists) :
                 lists[i] # <<>> /\ \A j \in 1..(i - 1) : lists[j] = <<>>]
    ELSE <<>>

\* A mutant of google_job_links: the three methods all run and their links
\* are put together.
google_job_links_all_methods(url, page) ==
    LET keep(hrefs) == SelectSeq(hrefs, LAMBDA h : h # url)
    IN  keep(page.elements)
          \o FirstNonEmpty([i \in 1..Len(page.selectors) |->
                              keep(page.selectors[i])])
          \o keep(page.source)

\* job_links when the browser is closed: method 1, the links inside the job
\* elements; method 2, if not job_links, the alternative selectors up to
\* the first that gives a link; method 3, if not job_links, the URLs of the
\* patterns in the page source.  href != url keeps the listing page out.
google_job_links(url, page) ==
    LET keep(hrefs) == SelectSeq(hrefs, LAMBDA h : h # url)
        method1 == keep(page.elements)
        method2 == FirstNonEmpty([i \in 1..Len(page.selectors) |->
                                    keep(page.selectors[i])])
        method3 == keep(page.source)
    IN  IF method1 # <<>> THEN method1
        ELSE IF method2 # <<>> THEN method2
        ELSE method3

\* unique_links = list(set(job_links)), as a set
scrape_google_careers(url, page) ==
    IF page.raises THEN {}
    ELSE Range(google_job_links(url, page))

\* get_page_content_with_selenium: the page source, or None on any error
get_page_content_with_selenium(browser) ==
    IF browser.fails THEN NoneValue ELSE browser.page_source

\* get_page_content_with_requests: the response text, or None on any error
get_page_content_with_requests(http) ==
    IF http.fails THEN NoneValue ELSE http.page_source

\* extract_job_urls_from_page: links are the hrefs of the anchors that match
\* the site's pattern, joined to the site's base; the result is
\* list(set(job_urls)), whose order is any
extract_job_urls_from_page(links) == Range(links)

\* JOB_SEARCH_CONFIG['max_jobs_per_search']
max_jobs_per_search == 10

\* the keys of CAREER_SITES
CAREER_SITES == {"linkedin", "indeed", "glassdoor"}

\* list(set(urls)): every order of the distinct elements
Orders(S) == { f \in [1..Cardinality(S) -> S] : Range(f) = S }

\* job_urls[:5]
FirstFive(urls) == SubSeq(urls, 1, IF Len(urls) < 5 THEN Len(urls) ELSE 5)

\* scrape_career_site reads a module-level name `config`; the module binds
\* none (main and extract_details_with_gemini bind locals of that name), so
\* the read raises NameError
GlobalConfigDefined == FALSE

(***************************************************************************)
(* The inputs of the engine                                                *)
(***************************************************************************)
T_DataEngineer == <<"D","a","t","a"," ","E","n","g","i","n","e","e","r">>
T_SeniorDataEngineer == <<"S","e","n","i","o","r"," ","D","a","t","a"," ","E","n","g","i","n","e","e","r">>
T_Chef == <<"C","h","e","f">>
T_Senior == <<"S","e","n","i","o","r">>
T_Data == <<"d","a","t","a">>
T_Acme == <<"A","c","m","e">>
T_PageText == <<"D","a","t","a"," "," ","E","n","g","i","n","e","e","r","\n"," ","R","e","m","o","t","e">>

\* config/scraper_config.json, as load_config returns it
Config ==
    [company_career_pages |->
        << [url |-> "careers.google.com/jobs/results/", google |-> TRUE],
           [url |-> "amazon.jobs/", google |-> FALSE] >>,
     career_sites |->
        << [name |-> "linkedin", enabled |-> TRUE],
           [name |-> "glassdoor", enabled |-> FALSE],
           [name |-> "indeed", enabled |-> TRUE] >>,
     job_search |-> [keywords |-> <<"data engineer">>,
                     locations |-> <<"Remote", "Austin">>],
     targeting |-> [exclude_keywords |-> <<T_Senior>>,
                    include_keywords |-> <<T_Data>>,
                    locations |-> <<T_Remote>>]]

GoogleListing == Config.company_career_pages[1].url

\* what the rendered listing page may hold
GooglePages ==
    { [raises |-> TRUE, elements |-> <<>>, selectors |-> <<>>, source |-> <<>>],
      [raises |-> FALSE, elements |-> <<"g/1", GoogleListing, "g/2", "g/1">>,
       selectors |-> << <<"g/1">> >>, source |-> <<>>],
      [raises |-> FALSE, elements |-> <<>>,
       selectors |-> << <<>>, <<GoogleListing>>, <<"g/2">>, <<"g/1">> >>,
       source |-> <<"g/1">>],
      [raises |-> FALSE, elements |-> <<>>, selectors |-> << <<>>, <<>> >>,
       source |-> <<"g/1", GoogleListing>>],
      [raises |-> FALSE, elements |-> <<>>, selectors |-> <<>>, source |-> <<>>] }

\* what the libraries of get_page_text may do
FetchEnvs ==
    { [trafilatura |-> "text", http |-> "ok", body |-> T_PageText],
      [trafilatura |-> "text", http |-> "ok", body |-> <<>>],
      [trafilatura |-> "nothing", http |-> "ok", body |-> T_PageText],
      [trafilatura |-> "raises", http |-> "ok", body |-> T_PageText],
      [trafilatura |-> "missing", http |-> "ok", body |-> T_PageText],
      [trafilatura |-> "missing", http |-> "fail", body |-> T_PageText] }

\* what the extraction service may answer
GeminiAnswers ==
    { [kind |-> "error"],
      [kind |-> "nojson"],
      [kind |-> "object", details |->
          [job_title |-> T_DataEngineer, company_name |-> T_Acme,
           location |-> T_Remote, salary_range |-> NoneValue,
           job_type |-> NoneValue]],
      [kind |-> "object", details |->
          [job_title |-> T_SeniorDataEngineer, company_name |-> T_Acme,
           location |-> T_Remote, salary_range |-> NoneValue,
           job_type |-> NoneValue]],
      [kind |-> "object", details |->
          [job_title |-> T_Chef, company_name |-> T_Acme,
           location |-> T_Remote]],
      [kind |-> "object", details |->
          [job_title |-> T_DataEngineer, company_name |-> T_Acme,
           location |-> T_Berlin, salary_range |-> NoneValue,
           job_type |-> NoneValue]],
      [kind |-> "object", details |->
          [job_title |-> NoneValue, company_name |-> NoneValue,
           location |-> NoneValue, salary_range |-> NoneValue,
           job_type |-> NoneValue]] }

\* what a browser or an HTTP request for a page may give
Browsers ==
    { [fails |-> TRUE, page_source |-> <<>>],
      [fails |-> FALSE, page_source |-> T_PageText] }

\* the job links a search-results page may hold
SearchLinks == { <<>>, <<"jb/1", "jb/1">>, <<"jb/1", "jb/2">> }

(***************************************************************************)
(* State                                                                   *)
(***************************************************************************)
VARIABLES
    store,      \* the job_applications table
    run,        \* how many runs were started
    entry,      \* the script the current run started: run_scraper.py,
                \* greenhouse_scraper.py or job_scraper_engine.py
    pc,         \* where the run is
    gh,         \* locals of scrape_all_greenhouse_companies and its callees
    eng,        \* locals of job_scraper_engine.main
    jb,         \* locals of scrape_career_site
    cand,       \* the candidate being processed and the stages it went through
    src,        \* the source being enumerated and processed
    hist,       \* what this run did so far
    atStart,    \* the store when the run started
    report,     \* what the run printed at its end
    acq,        \* the acquisition call in progress, and what it handed on
    fn,         \* a function of the program, its argument and its result
    workers     \* scripts run side by side on the same store

vars == <<store, run, entry, pc, gh, eng, jb, cand, src, hist, atStart, report,
          acq, fn, workers>>

pipeline_vars == <<store, run, entry, pc, gh, eng, jb, cand, src, hist, atStart,
                   report>>

\* no scripts side by side
NoWorkers == <<>>

\* no function under study
FnIdle == [op |-> "none", applied |-> FALSE]

\* no acquisition call in progress
AcqIdle == [caller |-> "none", step |-> "idle", open |-> 0, opened |-> FALSE,
            primary |-> "none", http |-> "none", raised |-> FALSE,
            raw |-> NoneValue, result |-> NoneValue, handed |-> NoneValue]

Entries == {"run_scraper", "greenhouse", "engine"}

NoCandidate == [url |-> "", path |-> "none", trace |-> <<>>]

NoSource == [i |-> 0, path |-> "none", failed |-> FALSE,
             returned |-> {}, handled |-> {}]

NewHist ==
    [enumerated |-> {},     \* the sources whose enumeration took place
     faults     |-> FALSE,  \* a store call of this run failed
     unparsed   |-> {},     \* the URLs of phase 3 whose answer held no object
     since      |-> "nothing"]  \* what was started since the last time.sleep

\* time.sleep, in a loop body or after driver.get in the loading of a
\* page: nothing is pending after it
Slept == "nothing"

\* a source is asked for its jobs; what an earlier candidate left stays
SourceBegins(since) == IF since = "nothing" THEN "source" ELSE since

\* the loop takes a candidate; an earlier page request stays pending
CandidateBegins(since) == IF since = "request" THEN "request" ELSE "candidate"

\* the page of a candidate is requested from the upstream site
Requested == "request"

GhInit == [i |-> 1, jobs |-> <<>>, k |-> 1,
           processed_count |-> 0, total_processed |-> 0]

EngInit == [page_i |-> 1, all_new_job_urls |-> {}, site_i |-> 1,
            total_new_jobs |-> 0, todo |-> {}, url |-> "",
            processed_count |-> 0,
            page_text |-> NoneValue, job_details |-> NoDetails]

\* unparsed: the URLs for which, in this call of scrape_career_site, the
\* answer of the service held no object
JbInit == [existing_urls |-> {}, new_jobs_found |-> 0, s |-> 1,
           job_urls |-> <<>>, n |-> 1, job_details |-> NoDetails,
           unparsed |-> {}]

Init ==
    /\ store = <<>>
    /\ run = 0
    /\ entry = "none"
    /\ pc = "idle"
    /\ gh = GhInit
    /\ eng = EngInit
    /\ jb = JbInit
    /\ cand = NoCandidate
    /\ src = NoSource
    /\ hist = NewHist
    /\ atStart = <<>>
    /\ report = [kind |-> "none"]
    /\ acq = AcqIdle
    /\ fn = FnIdle
    /\ workers = NoWorkers

Stage(name, out) == [stage |-> name, out |-> out]

\* the call of the extractor for a candidate, and what it returned
Extraction(job_details) ==
    Stage("extract", IF IsNoDetails(job_details) THEN "none" ELSE "fields")

\* a source of candidates: the i-th company, career page or job board
Source(path, i) == [path |-> path, i |-> i]

ExistsOutcome(lookup_ok, exists) ==
    IF ~lookup_ok THEN "error" ELSE IF exists THEN "present" ELSE "absent"

\* the start of one of the three scripts
StartRun ==
    /\ pc \in {"idle", "done"}
    /\ run < MaxRuns
    /\ \E e \in Entries :
        /\ entry' = e
        /\ pc' = IF e = "engine" THEN "e_pages" ELSE "gh_company"
    /\ run' = run + 1
    /\ gh' = GhInit
    /\ eng' = EngInit
    /\ jb' = JbInit
    /\ cand' = NoCandidate
    /\ src' = NoSource
    /\ hist' = NewHist
    /\ atStart' = store
    /\ report' = [kind |-> "none"]
    /\ UNCHANGED store
    /\ UNCHANGED <<acq, fn, workers>>

(***************************************************************************)
(* greenhouse_scraper.scrape_all_greenhouse_companies                      *)
(***************************************************************************)
\* the loop head: jobs = scrape_greenhouse_jobs(company)
GH_Scrape ==
    /\ pc = "gh_company"
    /\ gh.i <= Len(Companies)
    /\ \E resp \in ApiResponses(Companies[gh.i]) :
        LET company == Companies[gh.i]
            r == scrape_greenhouse_jobs(company, resp)
        IN  /\ gh' = [gh EXCEPT !.jobs = r.jobs, !.k = 1, !.processed_count = 0]
            /\ src' = [i |-> gh.i, path |-> "greenhouse",
                       failed |-> resp.kind = "error",
                       returned |-> IF resp.kind = "error" THEN {}
                                    ELSE Range(resp.jobs),
                       handled |-> {}]
            /\ pc' = IF r.raised THEN "crashed"
                     ELSE IF r.jobs # <<>> THEN "gh_job" ELSE "gh_wait"
    /\ hist' = [hist EXCEPT !.enumerated = @ \cup {Source("greenhouse", gh.i)},
                         !.since = SourceBegins(@)]
    /\ cand' = NoCandidate
    /\ UNCHANGED <<store, run, entry, eng, jb, atStart, report>>
    /\ UNCHANGED <<acq, fn, workers>>

\* process_greenhouse_jobs, one job: the empty URL, then the existence check
GH_Check ==
    /\ pc = "gh_job"
    /\ gh.k <= Len(gh.jobs)
    /\ LET job == gh.jobs[gh.k]
           url == job.url
       IN  IF url = ""
           THEN /\ gh' = [gh EXCEPT !.k = @ + 1]
                /\ cand' = NoCandidate
                /\ hist' = [hist EXCEPT !.since = CandidateBegins(@)]
                /\ UNCHANGED <<pc, src>>
           ELSE \E lookup_ok \in BOOLEAN :
                LET exists == gh_check_if_job_exists(store, url, lookup_ok)
                IN  /\ cand' = [url |-> url, path |-> "greenhouse",
                                trace |-> <<Stage("exists",
                                            ExistsOutcome(lookup_ok, exists))>>]
                    /\ src' = [src EXCEPT !.handled = @ \cup {url}]
                    /\ hist' = [hist EXCEPT !.faults = @ \/ ~lookup_ok,
                                            !.since = CandidateBegins(@)]
                    /\ IF exists
                       THEN gh' = [gh EXCEPT !.k = @ + 1] /\ pc' = "gh_job"
                       ELSE gh' = gh /\ pc' = "gh_save"
    /\ UNCHANGED <<store, run, entry, eng, jb, atStart, report>>
    /\ UNCHANGED <<acq, fn, workers>>

\* process_greenhouse_jobs, the same job: the insert, the count, the pause
GH_Save ==
    /\ pc = "gh_save"
    /\ \E fault \in WriteFaults :
        LET r == gh_save_to_supabase(store, gh_db_payload(gh.jobs[gh.k]), fault)
        IN  /\ store' = r.store
            /\ gh' = [gh EXCEPT
                  !.processed_count = IF r.ok THEN @ + 1 ELSE @,
                  !.k = @ + 1]
            /\ cand' = [cand EXCEPT
                  !.trace = Append(@, [stage |-> "insert", out |-> r.error,
                                       ret |-> r.ok])]
            /\ hist' = [hist EXCEPT !.faults = @ \/ fault # "none",
                                    !.since = Slept]
    /\ pc' = "gh_job"
    /\ UNCHANGED <<run, entry, eng, jb, src, atStart, report>>
    /\ UNCHANGED <<acq, fn, workers>>

\* process_greenhouse_jobs returns; total_processed += processed
GH_Return ==
    /\ pc = "gh_job"
    /\ gh.k > Len(gh.jobs)
    /\ gh' = [gh EXCEPT !.total_processed = @ + gh.processed_count]
    /\ pc' = "gh_wait"
    /\ cand' = NoCandidate
    /\ UNCHANGED <<store, run, entry, eng, jb, src, hist, atStart, report>>
    /\ UNCHANGED <<acq, fn, workers>>

\* the pause between companies, and the next company
GH_Wait ==
    /\ pc = "gh_wait"
    /\ gh' = [gh EXCEPT !.i = @ + 1]
    /\ pc' = "gh_company"
    /\ hist' = [hist EXCEPT
          !.since = IF gh.i < Len(Companies) THEN Slept ELSE @]
    /\ UNCHANGED <<store, run, entry, eng, jb, cand, src, atStart, report>>
    /\ UNCHANGED <<acq, fn, workers>>

\* scrape_all_greenhouse_companies returns total_processed
GH_Finish ==
    /\ pc = "gh_company"
    /\ gh.i > Len(Companies)
    /\ IF entry = "greenhouse"
       THEN /\ pc' = "done"
            /\ report' = [kind |-> "greenhouse", processed |-> gh.total_processed]
       ELSE /\ pc' = "e_pages"
            /\ UNCHANGED report
    /\ src' = NoSource
    /\ hist' = [hist EXCEPT !.since = IF entry = "greenhouse" THEN "nothing" ELSE @]
    /\ UNCHANGED <<store, run, entry, gh, eng, jb, cand, atStart>>
    /\ UNCHANGED <<acq, fn, workers>>

(***************************************************************************)
(* job_scraper_engine.main, part 1: scrape_company_career_pages            *)
(***************************************************************************)
E_Page ==
    /\ pc = "e_pages"
    /\ eng.page_i <= Len(Config.company_career_pages)
    /\ LET page_cfg == Config.company_career_pages[eng.page_i]
       IN  /\ IF page_cfg.google
              THEN \E page \in GooglePages :
                    LET links == scrape_google_careers(page_cfg.url, page)
                    IN  /\ eng' = [eng EXCEPT
                              !.all_new_job_urls = @ \cup links,
                              !.page_i = @ + 1]
                        /\ src' = [i |-> eng.page_i, path |-> "pages",
                                   failed |-> page.raises,
                                   returned |-> links, handled |-> {}]
                        /\ hist' = [hist EXCEPT
                              !.enumerated = @ \cup {Source("pages", eng.page_i)},
                              !.since = IF page.raises THEN SourceBegins(@)
                                        ELSE Slept]
              ELSE /\ eng' = [eng EXCEPT !.page_i = @ + 1]
                   /\ src' = [i |-> eng.page_i, path |-> "pages",
                              failed |-> TRUE, returned |-> {}, handled |-> {}]
                   /\ hist' = [hist EXCEPT
                         !.enumerated = @ \cup {Source("pages", eng.page_i)},
                         !.since = SourceBegins(@)]
    /\ cand' = NoCandidate
    /\ UNCHANGED <<store, run, entry, pc, gh, jb, atStart, report>>
    /\ UNCHANGED <<acq, fn, workers>>

E_PagesDone ==
    /\ pc = "e_pages"
    /\ eng.page_i > Len(Config.company_career_pages)
    /\ pc' = "e_site"
    /\ src' = NoSource
    /\ UNCHANGED <<store, run, entry, gh, eng, jb, cand, hist, atStart, report>>
    /\ UNCHANGED <<acq, fn, workers>>

(***************************************************************************)
(* job_scraper_engine.main, part 2: the job boards (scrape_career_site)    *)
(***************************************************************************)
NumSearches == Len(Config.job_search.keywords) * Len(Config.job_search.locations)

\* main skips a site whose configuration is not enabled
E_SkipSite ==
    /\ pc = "e_site"
    /\ eng.site_i <= Len(Config.career_sites)
    /\ ~Config.career_sites[eng.site_i].enabled
    /\ eng' = [eng EXCEPT !.site_i = @ + 1]
    /\ UNCHANGED <<store, run, entry, pc, gh, jb, cand, src, hist, atStart, report>>
    /\ UNCHANGED <<acq, fn, workers>>

\* scrape_career_site, up to the search loop: the snapshot of the stored
\* URLs, and the legacy configuration of the site
JB_Begin ==
    /\ pc = "e_site"
    /\ eng.site_i <= Len(Config.career_sites)
    /\ Config.career_sites[eng.site_i].enabled
    /\ \E lookup_ok \in BOOLEAN :
        /\ jb' = [JbInit EXCEPT
              !.existing_urls = get_existing_job_urls(store, lookup_ok)]
        /\ hist' = [hist EXCEPT
              !.enumerated = @ \cup {Source("boards", eng.site_i)},
              !.faults = @ \/ ~lookup_ok,
              !.since = SourceBegins(@)]
    /\ IF Config.career_sites[eng.site_i].name \in CAREER_SITES
       THEN pc' = "jb_search" /\ eng' = eng
       ELSE pc' = "e_site" /\ eng' = [eng EXCEPT !.site_i = @ + 1]
    /\ src' = [NoSource EXCEPT !.i = eng.site_i, !.path = "boards"]
    /\ cand' = NoCandidate
    /\ UNCHANGED <<store, run, entry, gh, atStart, report>>
    /\ UNCHANGED <<acq, fn, workers>>

\* one (keyword, location) search: the results page and its job URLs.  The
\* break on max_jobs_per_search leaves the inner loop only, and every later
\* pass of it breaks as well.
JB_Search ==
    /\ pc = "jb_search"
    /\ jb.s <= NumSearches
    /\ jb.new_jobs_found < max_jobs_per_search
    /\ \E b \in Browsers, links \in SearchLinks :
        LET site_name == Config.career_sites[eng.site_i].name
            slept == site_name \in {"linkedin", "glassdoor"} /\ ~b.fails
            page_content ==
                IF site_name \in {"linkedin", "glassdoor"}
                THEN get_page_content_with_selenium(b)
                ELSE get_page_content_with_requests(b)
        IN  /\ hist' = [hist EXCEPT !.since = IF slept THEN Slept ELSE @]
            /\ IF ~Truthy(page_content)
               THEN /\ jb' = [jb EXCEPT !.s = @ + 1]
                    /\ src' = [src EXCEPT !.failed = TRUE, !.returned = {},
                                          !.handled = {}]
                    /\ pc' = "jb_search"
               ELSE \E job_urls \in Orders(extract_job_urls_from_page(links)) :
                    /\ jb' = [jb EXCEPT !.job_urls = job_urls, !.n = 1]
                    /\ src' = [src EXCEPT !.failed = FALSE,
                                          !.returned = Range(FirstFive(job_urls)),
                                          !.handled = {}]
                    /\ pc' = "jb_job"
    /\ cand' = NoCandidate
    /\ UNCHANGED <<store, run, entry, gh, eng, atStart, report>>
    /\ UNCHANGED <<acq, fn, workers>>

\* one job URL: the test against the snapshot
JB_Check ==
    /\ pc = "jb_job"
    /\ jb.n <= Len(FirstFive(jb.job_urls))
    /\ LET job_url == jb.job_urls[jb.n]
           known == job_url \in jb.existing_urls
       IN  /\ cand' = [url |-> job_url, path |-> "boards",
                       trace |-> <<Stage("exists",
                                   IF known THEN "present" ELSE "absent")>>]
           /\ src' = [src EXCEPT !.handled = @ \cup {job_url}]
           /\ IF known
              THEN jb' = [jb EXCEPT !.n = @ + 1] /\ pc' = "jb_job"
              ELSE jb' = jb /\ pc' = "jb_acquire"
    /\ hist' = [hist EXCEPT !.since = CandidateBegins(@)]
    /\ UNCHANGED <<store, run, entry, gh, eng, atStart, report>>
    /\ UNCHANGED <<acq, fn, workers>>

\* the job page, through the browser
JB_Acquire ==
    /\ pc = "jb_acquire"
    /\ \E b \in Browsers :
        LET job_page_content == get_page_content_with_selenium(b)
        IN  /\ cand' = [cand EXCEPT !.trace = Append(@, Stage("acquire",
                  IF Truthy(job_page_content) THEN "text" ELSE "none"))]
            /\ IF Truthy(job_page_content)
               THEN jb' = jb /\ pc' = "jb_extract"
               ELSE jb' = [jb EXCEPT !.n = @ + 1] /\ pc' = "jb_job"
            /\ hist' = [hist EXCEPT !.since = IF b.fails THEN Requested
                                               ELSE Slept]
    /\ UNCHANGED <<store, run, entry, gh, eng, src, atStart, report>>
    /\ UNCHANGED <<acq, fn, workers>>

\* the extraction; without details or a title: the pause, the next URL
JB_Extract ==
    /\ pc = "jb_extract"
    /\ \E answer \in GeminiAnswers :
        LET job_details == extract_details_with_gemini(answer, cand.url)
            usable == ~IsNoDetails(job_details) /\ Truthy(job_details.Title)
        IN  /\ cand' = [cand EXCEPT
                  !.trace = Append(@, Extraction(job_details))]
            /\ IF usable
               THEN jb' = [jb EXCEPT !.job_details = job_details]
                    /\ pc' = "jb_filter"
                    /\ hist' = hist
               ELSE jb' = [jb EXCEPT !.n = @ + 1,
                                     !.unparsed = IF answer.kind = "nojson"
                                                  THEN @ \cup {cand.url} ELSE @]
                    /\ pc' = "jb_job"
                    /\ hist' = [hist EXCEPT !.since = Slept]
    /\ UNCHANGED <<store, run, entry, gh, eng, src, atStart, report>>
    /\ UNCHANGED <<acq, fn, workers>>

\* should_process_job(job_details, config): the read of config raises, the
\* exception leaves scrape_career_site and main's except takes the next
\* site.  Were config bound: the filter, the insert, the count, the pause.
JB_Filter ==
    /\ pc = "jb_filter"
    /\ IF ~GlobalConfigDefined
       THEN /\ cand' = [cand EXCEPT !.trace = Append(@, Stage("filter", "raised"))]
            /\ eng' = [eng EXCEPT !.site_i = @ + 1]
            /\ jb' = JbInit
            /\ pc' = "e_site"
            /\ UNCHANGED <<store, hist>>
       ELSE \E fault \in WriteFaults :
            LET pass == should_process_job(jb.job_details, Config)
                r == IF pass THEN save_to_supabase(store, jb.job_details, fault)
                     ELSE [store |-> store, ok |-> FALSE, error |-> "none"]
            IN  /\ store' = r.store
                /\ jb' = [jb EXCEPT
                      !.new_jobs_found = IF r.ok THEN @ + 1 ELSE @,
                      !.existing_urls = IF r.ok THEN @ \cup {cand.url} ELSE @,
                      !.job_details = NoDetails,
                      !.n = @ + 1]
                /\ cand' = [cand EXCEPT !.trace =
                      IF pass
                      THEN @ \o <<Stage("filter", "pass"),
                                  [stage |-> "insert", out |-> r.error,
                                   ret |-> r.ok]>>
                      ELSE Append(@, Stage("filter", "reject"))]
                /\ hist' = [hist EXCEPT !.faults = @ \/ (pass /\ fault # "none"),
                                        !.since = Slept]
                /\ pc' = "jb_job"
                /\ eng' = eng
    /\ UNCHANGED <<run, entry, gh, src, atStart, report>>
    /\ UNCHANGED <<acq, fn, workers>>

\* the job URLs of this search are done: the pause, the next search
JB_SearchDone ==
    /\ pc = "jb_job"
    /\ jb.n > Len(FirstFive(jb.job_urls))
    /\ jb' = [jb EXCEPT !.s = @ + 1]
    /\ pc' = "jb_search"
    /\ cand' = NoCandidate
    /\ hist' = [hist EXCEPT !.since = Slept]
    /\ UNCHANGED <<store, run, entry, gh, eng, src, atStart, report>>
    /\ UNCHANGED <<acq, fn, workers>>

\* scrape_career_site returns new_jobs_found and its locals end;
\* total_new_jobs += new_jobs
JB_Return ==
    /\ pc = "jb_search"
    /\ jb.s > NumSearches \/ jb.new_jobs_found >= max_jobs_per_search
    /\ eng' = [eng EXCEPT !.total_new_jobs = @ + jb.new_jobs_found,
                          !.site_i = @ + 1]
    /\ jb' = JbInit
    /\ pc' = "e_site"
    /\ cand' = NoCandidate
    /\ UNCHANGED <<store, run, entry, gh, src, hist, atStart, report>>
    /\ UNCHANGED <<acq, fn, workers>>

(***************************************************************************)
(* job_scraper_engine.main, part 3: the URLs of the company career pages   *)
(***************************************************************************)
\* A mutant of after_stage: the result of the existence check is ignored.
after_stage_ignoring_exists(stage, passed) ==
    IF stage = "exists" THEN "p3_acquire"
    ELSE IF ~passed THEN "p3_url"
    ELSE IF stage = "acquire" THEN "p3_extract"
    ELSE IF stage = "extract" THEN "p3_filter"
    ELSE "p3_save"

\* the body of the loop over unique_urls: each test that fails ends the
\* work on this URL (continue), each test that passes leads to the next call
after_stage(stage, passed) ==
    IF ~passed THEN "p3_url"
    ELSE IF stage = "exists" THEN "p3_acquire"
    ELSE IF stage = "acquire" THEN "p3_extract"
    ELSE IF stage = "extract" THEN "p3_filter"
    ELSE "p3_save"

\* unique_urls = list(set(all_new_job_urls)), visited in any order
E_SitesDone ==
    /\ pc = "e_site"
    /\ eng.site_i > Len(Config.career_sites)
    /\ eng' = [eng EXCEPT !.todo = eng.all_new_job_urls]
    /\ src' = [i |-> 0, path |-> "phase3", failed |-> FALSE,
               returned |-> eng.all_new_job_urls, handled |-> {}]
    /\ pc' = "p3_url"
    /\ cand' = NoCandidate
    /\ UNCHANGED <<store, run, entry, gh, jb, hist, atStart, report>>
    /\ UNCHANGED <<acq, fn, workers>>

\* the next URL: the existence check
P3_Check ==
    /\ pc = "p3_url"
    /\ \E url \in eng.todo, lookup_ok \in BOOLEAN :
        LET exists == check_if_job_exists(store, url, lookup_ok)
        IN  /\ eng' = [eng EXCEPT !.todo = @ \ {url}, !.url = url]
            /\ cand' = [url |-> url, path |-> "phase3",
                        trace |-> <<Stage("exists",
                                    ExistsOutcome(lookup_ok, exists))>>]
            /\ src' = [src EXCEPT !.handled = @ \cup {url}]
            /\ hist' = [hist EXCEPT !.faults = @ \/ ~lookup_ok,
                                    !.since = CandidateBegins(@)]
            /\ pc' = after_stage("exists", ~exists)
    /\ UNCHANGED <<store, run, entry, gh, jb, atStart, report>>
    /\ UNCHANGED <<acq, fn, workers>>

\* page_text = get_page_text(url); an exception is caught by the try of
\* this URL
P3_Acquire ==
    /\ pc = "p3_acquire"
    /\ \E env \in FetchEnvs :
        LET r == get_page_text(env)
            ok == ~r.raised /\ Truthy(r.text)
        IN  /\ cand' = [cand EXCEPT !.trace = Append(@, Stage("acquire",
                  IF r.raised THEN "raised"
                  ELSE IF Truthy(r.text) THEN "text" ELSE "none"))]
            /\ eng' = [eng EXCEPT !.page_text = IF ok THEN r.text ELSE NoneValue]
            /\ pc' = after_stage("acquire", ok)
    /\ hist' = [hist EXCEPT !.since = Requested]
    /\ UNCHANGED <<store, run, entry, gh, jb, src, atStart, report>>
    /\ UNCHANGED <<acq, fn, workers>>

\* job_details = extract_details_with_gemini(page_text, url)
P3_Extract ==
    /\ pc = "p3_extract"
    /\ \E answer \in GeminiAnswers :
        LET job_details == extract_details_with_gemini(answer, eng.url)
        IN  /\ cand' = [cand EXCEPT
                  !.trace = Append(@, Extraction(job_details))]
            /\ hist' = [hist EXCEPT !.unparsed =
                  IF answer.kind = "nojson" THEN @ \cup {eng.url} ELSE @]
            /\ eng' = [eng EXCEPT !.job_details = job_details,
                                  !.page_text = NoneValue]
            /\ pc' = after_stage("extract", ~IsNoDetails(job_details))
    /\ UNCHANGED <<store, run, entry, gh, jb, src, atStart, report>>
    /\ UNCHANGED <<acq, fn, workers>>

\* should_process_job(job_details, config), config being main's local
P3_Filter ==
    /\ pc = "p3_filter"
    /\ LET pass == should_process_job(eng.job_details, Config)
       IN  /\ cand' = [cand EXCEPT !.trace = Append(@, Stage("filter",
                 IF pass THEN "pass" ELSE "reject"))]
           /\ eng' = [eng EXCEPT !.job_details = IF pass THEN @ ELSE NoDetails]
           /\ pc' = after_stage("filter", pass)
    /\ UNCHANGED <<store, run, entry, gh, jb, src, hist, atStart, report>>
    /\ UNCHANGED <<acq, fn, workers>>

\* save_to_supabase(job_details), the count, the pause
P3_Save ==
    /\ pc = "p3_save"
    /\ \E fault \in WriteFaults :
        LET r == save_to_supabase(store, eng.job_details, fault)
        IN  /\ store' = r.store
            /\ eng' = [eng EXCEPT
                  !.processed_count = IF r.ok THEN @ + 1 ELSE @,
                  !.job_details = NoDetails]
            /\ cand' = [cand EXCEPT
                  !.trace = Append(@, [stage |-> "insert", out |-> r.error,
                                       ret |-> r.ok])]
            /\ hist' = [hist EXCEPT !.faults = @ \/ fault # "none",
                                    !.since = Slept]
    /\ pc' = "p3_url"
    /\ UNCHANGED <<run, entry, gh, jb, src, atStart, report>>
    /\ UNCHANGED <<acq, fn, workers>>

\* the end of main: the summary.  main returns nothing, so run_scraper adds
\* (None or 0) to the platform count.
E_Finish ==
    /\ pc = "p3_url"
    /\ eng.todo = {}
    /\ report' = IF entry = "engine"
                 THEN [kind |-> "engine", board_jobs |-> eng.total_new_jobs,
                       processed |-> eng.processed_count]
                 ELSE [kind |-> "run_scraper",
                       processed |-> gh.total_processed + 0]
    /\ pc' = "done"
    /\ cand' = NoCandidate
    /\ hist' = [hist EXCEPT !.since = "nothing"]
    /\ UNCHANGED <<store, run, entry, gh, eng, jb, src, atStart>>
    /\ UNCHANGED <<acq, fn, workers>>

Next ==
    \/ StartRun
    \/ GH_Scrape
    \/ GH_Check
    \/ GH_Save
    \/ GH_Return
    \/ GH_Wait
    \/ GH_Finish
    \/ E_Page
    \/ E_PagesDone
    \/ E_SkipSite
    \/ JB_Begin
    \/ JB_Search
    \/ JB_Check
    \/ JB_Acquire
    \/ JB_Extract
    \/ JB_Filter
    \/ JB_SearchDone
    \/ JB_Return
    \/ E_SitesDone
    \/ P3_Check
    \/ P3_Acquire
    \/ P3_Extract
    \/ P3_Filter
    \/ P3_Save
    \/ E_Finish

Spec == Init /\ [][Next]_vars

(***************************************************************************)
(* Content acquisition: job_tracker_v3.get_page_text, step by step, and    *)
(* the engine's get_page_text, get_page_content_with_selenium and          *)
(* scrape_google_careers, with the browser each of them opens.             *)
(***************************************************************************)
MaxTextLen == 5

Alphabet == {"a", " ", "\n", "\t"}

\* the texts a page may give
Texts == UNION { [1..n -> Alphabet] : n \in 0..MaxTextLen }

Min(S) == CHOOSE x \in S : \A y \in S : x <= y

\* str.strip()
RECURSIVE strip(_)
strip(s) ==
    IF s = <<>> THEN s
    ELSE IF IsSpace(s[1]) THEN strip(Tail(s))
    ELSE IF IsSpace(s[Len(s)]) THEN strip(SubSeq(s, 1, Len(s) - 1))
    ELSE s

\* str.splitlines(): no line for the empty text, none after a final break
RECURSIVE splitlines(_)
splitlines(s) ==
    IF s = <<>> THEN <<>>
    ELSE LET breaks == { i \in 1..Len(s) : s[i] \in {"\n", "\r"} }
         IN  IF breaks = {} THEN <<s>>
             ELSE <<SubSeq(s, 1, Min(breaks) - 1)>>
                  \o splitlines(SubSeq(s, Min(breaks) + 1, Len(s)))

\* line.split("  "): the separator is two spaces, matched from the left
RECURSIVE split_two_spaces(_)
split_two_spaces(s) ==
    LET at == { i \in 1..(Len(s) - 1) : s[i] = " " /\ s[i + 1] = " " }
    IN  IF at = {} THEN <<s>>
        ELSE <<SubSeq(s, 1, Min(at) - 1)>>
             \o split_two_spaces(SubSeq(s, Min(at) + 2, Len(s)))

\* '\n'.join(chunks)
RECURSIVE join_lines(_)
join_lines(chunks) ==
    IF chunks = <<>> THEN <<>>
    ELSE IF Len(chunks) = 1 THEN chunks[1]
    ELSE chunks[1] \o <<"\n">> \o join_lines(Tail(chunks))

RECURSIVE Flatten(_)
Flatten(seqs) == IF seqs = <<>> THEN <<>> ELSE seqs[1] \o Flatten(Tail(seqs))

NonEmpty(chunk) == chunk # <<>>

\* A mutant of clean_text: the phrases between double spaces are not trimmed.
clean_text_phrases_untrimmed(text) ==
    LET lines == [i \in 1..Len(splitlines(text)) |-> strip(splitlines(text)[i])]
        chunks == Flatten([i \in 1..Len(lines) |-> split_two_spaces(lines[i])])
    IN  join_lines(SelectSeq(chunks, NonEmpty))

\* A mutant of clean_text: the lines are trimmed and nothing more.
clean_text_lines_only(text) ==
    LET lines == [i \in 1..Len(splitlines(text)) |-> strip(splitlines(text)[i])]
    IN  join_lines(SelectSeq(lines, NonEmpty))

\* the cleaning of get_page_text: lines, each trimmed; phrases between
\* double spaces, each trimmed; the non-empty ones joined by newlines
clean_text(text) ==
    LET lines == [i \in 1..Len(splitlines(text)) |-> strip(splitlines(text)[i])]
        phrases(line) == [k \in 1..Len(split_two_spaces(line)) |->
                            strip(split_two_spaces(line)[k])]
        chunks == Flatten([i \in 1..Len(lines) |-> phrases(lines[i])])
    IN  join_lines(SelectSeq(chunks, NonEmpty))

\* who asks for a page: the tracker's main (get_page_text of
\* job_tracker_v3), the engine's main (its get_page_text), the engine's
\* scrape_career_site (get_page_content_with_selenium), and
\* scrape_company_career_pages (scrape_google_careers)
Callers == {"tracker", "engine_main", "career_site", "listing"}

\* the callers that pass what they got to extract_details_with_gemini
Extracting == {"tracker", "engine_main", "career_site"}

AcqEnvs ==
    { [trafilatura |-> t, http |-> h, body |-> b] :
        t \in {"missing", "raises", "nothing", "text"},
        h \in {"ok", "fail"},
        b \in Texts \cup {NoneValue} }

\* A mutant of after_rendering: the HTTP request is made in every case.
after_rendering_always_http(caller, primary) ==
    IF caller = "tracker" THEN "fallback" ELSE "return"

\* where a call goes when the browser part is over: the return inside the
\* try, or the except clause, which for the tracker is the HTTP request
after_rendering(caller, primary) ==
    IF primary = "ok" THEN "return"
    ELSE IF caller = "tracker" THEN "fallback"
    ELSE "return"

\* A mutant of driver_quit: the browser is closed after a success only.
driver_quit_on_success(open, primary) ==
    IF primary = "ok" THEN open - 1 ELSE open

\* finally: driver.quit()
driver_quit(open, primary) == open - 1

\* the call
A_Call ==
    /\ acq.step = "idle"
    /\ \E caller \in Callers :
        acq' = [AcqIdle EXCEPT !.caller = caller,
                  !.step = IF caller = "engine_main" THEN "trafilatura"
                           ELSE "setup"]
    /\ UNCHANGED <<pipeline_vars, fn, workers>>

\* Service(ChromeDriverManager().install()); webdriver.Chrome(...): either
\* raises and no browser is there, or the browser is open
D_Setup ==
    /\ acq.step = "setup"
    /\ \E ok \in BOOLEAN :
        acq' = IF ok
               THEN [acq EXCEPT !.open = @ + 1, !.opened = TRUE,
                                !.step = "render"]
               ELSE [acq EXCEPT !.primary = "raised",
                                !.step = after_rendering(acq.caller, "raised")]
    /\ UNCHANGED <<pipeline_vars, fn, workers>>

\* the inner try: driver.get, the waits, the reading of the page.  The
\* tracker cleans the text of the element it chose; the job-board path
\* takes page_source as it is; the listing call collects links.
D_Render ==
    /\ acq.step = "render"
    /\ \E ok \in BOOLEAN, raw \in Texts :
        acq' = IF ok
               THEN [acq EXCEPT
                       !.primary = "ok",
                       !.raw = raw,
                       !.result = IF acq.caller = "tracker" THEN clean_text(raw)
                                  ELSE IF acq.caller = "career_site" THEN raw
                                  ELSE NoneValue,
                       !.step = "finally"]
               ELSE [acq EXCEPT !.primary = "raised", !.step = "finally"]
    /\ UNCHANGED <<pipeline_vars, fn, workers>>

\* finally: driver.quit(), then the return or the except clause
D_Quit ==
    /\ acq.step = "finally"
    /\ acq' = [acq EXCEPT !.open = driver_quit(acq.open, acq.primary),
                          !.step = after_rendering(acq.caller, acq.primary)]
    /\ UNCHANGED <<pipeline_vars, fn, workers>>

\* the tracker's except clause: requests.get, raise_for_status,
\* BeautifulSoup, get_text, the cleaning; None when any of it raises
T_Fallback ==
    /\ acq.step = "fallback"
    /\ \E ok \in BOOLEAN, raw \in Texts :
        acq' = IF ok
               THEN [acq EXCEPT !.http = "ok", !.raw = raw,
                                !.result = clean_text(raw), !.step = "return"]
               ELSE [acq EXCEPT !.http = "failed", !.result = NoneValue,
                                !.step = "return"]
    /\ UNCHANGED <<pipeline_vars, fn, workers>>

\* the engine's get_page_text, in one step
G_GetPageText ==
    /\ acq.step = "trafilatura"
    /\ \E env \in AcqEnvs :
        LET r == get_page_text(env)
        IN  acq' = [acq EXCEPT
                      !.primary = IF env.trafilatura = "text" THEN "ok"
                                  ELSE env.trafilatura,
                      !.http = IF ~r.http THEN "none"
                               ELSE IF env.http = "ok" THEN "ok" ELSE "failed",
                      !.raised = r.raised,
                      !.raw = IF IsNone(r.text) THEN NoneValue ELSE env.body,
                      !.result = r.text,
                      !.step = "return"]
    /\ UNCHANGED <<pipeline_vars, fn, workers>>

\* back in the caller: if page_text: extract_details_with_gemini(page_text)
A_Return ==
    /\ acq.step = "return"
    /\ acq' = [acq EXCEPT
                 !.handed = IF /\ acq.caller \in Extracting
                               /\ ~acq.raised
                               /\ Truthy(acq.result)
                            THEN acq.result ELSE NoneValue,
                 !.step = "idle"]
    /\ UNCHANGED <<pipeline_vars, fn, workers>>

AcqNext ==
    \/ A_Call
    \/ D_Setup
    \/ D_Render
    \/ D_Quit
    \/ T_Fallback
    \/ G_GetPageText
    \/ A_Return

AcqSpec == Init /\ [][AcqNext]_vars

(***************************************************************************)
(* The functions of the program taken one by one: the argument is drawn    *)
(* at the start, the step applies the function.                            *)
(***************************************************************************)
Call(op, arg) == [op |-> op, arg |-> arg, applied |-> FALSE]

(***************************************************************************)
(* The answer of the extraction service, as a sequence of lexemes: a word  *)
(* of prose, a blank, the two braces, a member of an object ("key":value,  *)
(* with its comma), and the two code-fence markers.                        *)
(***************************************************************************)
MaxResponseLen == 5

\* the markers that open and close a fenced block: three backquotes
\* followed by json, and three backquotes
Fences == {"fence_json", "fence"}

ResponseTokens == {"x", " ", "{", "}", "m"} \cup Fences

Responses == UNION { [1..n -> ResponseTokens] : n \in 0..MaxResponseLen }

Variants == {"engine", "v2", "v3"}

\* response.text.strip(), the two replace() of the markers by '', strip()
json_text(response) ==
    strip(SelectSeq(strip(response), LAMBDA c : c \notin Fences))

\* str.find and str.rfind of one character, 0 when it is absent
find(t, c) ==
    IF \E i \in 1..Len(t) : t[i] = c
    THEN CHOOSE i \in 1..Len(t) : t[i] = c /\ \A j \in 1..(i - 1) : t[j] # c
    ELSE 0

rfind(t, c) ==
    IF \E i \in 1..Len(t) : t[i] = c
    THEN CHOOSE i \in 1..Len(t) : t[i] = c /\ \A j \in (i + 1)..Len(t) : t[j] # c
    ELSE 0

NoObject == [kind |-> "nojson", members |-> <<>>]

\* json.loads, as far as an object goes: an opening brace, members and
\* blanks, a closing brace; anything else raises
json_loads(t) ==
    IF /\ Len(t) >= 2
       /\ t[1] = "{"
       /\ t[Len(t)] = "}"
       /\ \A i \in 2..(Len(t) - 1) : t[i] \in {"m", " "}
    THEN [kind |-> "object",
          members |-> SelectSeq(SubSeq(t, 2, Len(t) - 1), LAMBDA c : c = "m")]
    ELSE NoObject

\* the engine and the tracker v3: the whole text when it starts and ends
\* with a brace, else the part from the first '{' to the last '}'
parse_with_search(t) ==
    IF Len(t) > 0 /\ t[1] = "{" /\ t[Len(t)] = "}"
    THEN json_loads(t)
    ELSE LET start_idx == find(t, "{")
             end_idx == rfind(t, "}")
         IN  IF start_idx # 0 /\ end_idx # 0
             THEN json_loads(SubSeq(t, start_idx, end_idx))
             ELSE NoObject

\* the tracker v2: json.loads of the whole text
parse_whole(t) == json_loads(t)

parse_response(variant, response) ==
    IF variant = "v2"
    THEN parse_whole(json_text(response))
    ELSE parse_with_search(json_text(response))

(***************************************************************************)
(* The page text inside the prompt of extract_details_with_gemini          *)
(***************************************************************************)
\* the 8000 of text_content[:8000]
text_cap == 8000

MaxExcess == 2

\* page texts around the cap, and the empty one
PageTexts ==
    { [i \in 1..n |-> "a"] : n \in {0} \cup ((text_cap - MaxExcess)..(text_cap + MaxExcess)) }

\* the text between the two --- lines of the prompt: text_content[:8000] in
\* the engine and in the tracker v2, text_content in the tracker v3
prompt_text(variant, text_content) ==
    IF variant = "v3"
    THEN text_content
    ELSE SubSeq(text_content, 1, Min({Len(text_content), text_cap}))

(***************************************************************************)
(* The dictionary parsed from the answer of the service                    *)
(***************************************************************************)
RequiredKeys == {"job_title", "company_name", "location", "salary_range", "job_type"}

\* every object whose keys are some of the five, each with a text or null
ParsedObjects ==
    UNION { [K -> {T_Acme, NoneValue}] : K \in SUBSET RequiredKeys }

ParsedAnswers ==
    { [kind |-> "object", details |-> d] : d \in ParsedObjects }

(***************************************************************************)
(* Job titles, made of the words of a small vocabulary                     *)
(***************************************************************************)
MaxTitleWords == 2

T_Software == <<"S","o","f","t","w","a","r","e">>
T_Engineer == <<"E","n","g","i","n","e","e","r">>
T_II == <<"I","I">>
T_Marketing == <<"M","a","r","k","e","t","i","n","g">>
T_Intern == <<"I","n","t","e","r","n">>
T_DataWord == <<"D","a","t","a">>
T_FiveYears == <<"5","+"," ","y","r","s">>

TitleVocabulary ==
    {"Senior", "Software", "Engineer", "II", "Marketing", "Intern", "5+ yrs", "Chef"}

Spelling(w) ==
    CASE w = "Senior" -> T_Senior
      [] w = "Software" -> T_Software
      [] w = "Engineer" -> T_Engineer
      [] w = "II" -> T_II
      [] w = "Marketing" -> T_Marketing
      [] w = "Intern" -> T_Intern
      [] w = "5+ yrs" -> T_FiveYears
      [] w = "Chef" -> T_Chef
      [] w = "Data" -> T_DataWord

RECURSIVE JoinWords(_)
JoinWords(ws) ==
    IF ws = <<>> THEN <<>>
    ELSE IF Len(ws) = 1 THEN Spelling(ws[1])
    ELSE Spelling(ws[1]) \o <<" ">> \o JoinWords(Tail(ws))

\* every title of up to MaxTitleWords words, and two titles of three words
Titles ==
    { [words |-> ws, title |-> JoinWords(ws)] :
        ws \in UNION { [1..n -> TitleVocabulary] : n \in 0..MaxTitleWords }
               \cup { <<"Senior", "Software", "Engineer">>,
                      <<"Software", "Engineer", "II">> } }

(***************************************************************************)
(* Locations, made of the place names of a small vocabulary                *)
(***************************************************************************)
MaxPlaceNames == 2

T_REMOTE == <<"R","E","M","O","T","E">>
T_Germany == <<"G","e","r","m","a","n","y">>
T_Sydney == <<"S","y","d","n","e","y">>
T_Australia == <<"A","u","s","t","r","a","l","i","a">>

PlaceVocabulary ==
    {"Remote", "REMOTE", "New York", "Berlin", "Germany", "Sydney", "Australia"}

PlaceSpelling(w) ==
    CASE w = "Remote" -> T_Remote
      [] w = "REMOTE" -> T_REMOTE
      [] w = "New York" -> T_NewYork
      [] w = "Berlin" -> T_Berlin
      [] w = "Germany" -> T_Germany
      [] w = "Sydney" -> T_Sydney
      [] w = "Australia" -> T_Australia

RECURSIVE JoinPlaces(_)
JoinPlaces(ws) ==
    IF ws = <<>> THEN <<>>
    ELSE IF Len(ws) = 1 THEN PlaceSpelling(ws[1])
    ELSE PlaceSpelling(ws[1]) \o <<",", " ">> \o JoinPlaces(Tail(ws))

\* None, the empty location, and every location of up to MaxPlaceNames
\* names separated by commas
Locations ==
    { [names |-> ws, location |-> JoinPlaces(ws)] :
        ws \in UNION { [1..n -> PlaceVocabulary] : n \in 0..MaxPlaceNames } }
    \cup { [names |-> <<>>, location |-> NoneValue] }

(***************************************************************************)
(* Extracted jobs and targeting configurations for should_process_job      *)
(***************************************************************************)
JobTitleVocabulary == {"Senior", "Data", "Engineer", "Chef"}

JobLocations == { NoneValue, <<>>, T_Remote, T_Berlin }

\* the targeting section: each list empty or with one keyword
Targetings ==
    [exclude_keywords : { <<>>, <<T_Senior>> },
     include_keywords : { <<>>, <<T_Data>> },
     locations : { <<>>, <<T_Remote>> }]

FilterInputs ==
    { [words |-> ws,
       job_details |-> [Title |-> JoinWords(ws), Company |-> T_Acme,
                        Location |-> loc, Salary |-> NoneValue,
                        Type |-> NoneValue, URL |-> "url"],
       config |-> [targeting |-> t]] :
        ws \in UNION { [1..n -> JobTitleVocabulary] : n \in 0..MaxTitleWords },
        loc \in JobLocations,
        t \in Targetings }

(***************************************************************************)
(* The existence check of the three scripts, on a store                    *)
(***************************************************************************)
MaxRows == 2

\* what execute() returns for the select: an object with the rows in data
\* and no count
ExecuteSelect(st, url) ==
    [data |-> StoreSelectByURL(st, url), count |-> NoneValue]

\* iterating the response object gives its fields as (name, value) pairs
FieldPairs(response) ==
    << <<"data", response.data>>, <<"count", response.count>> >>

\* A mutant of the tracker's check_if_job_exists: the first component of
\* the pair is read, the name of the field.
v3_check_if_job_exists_reads_name(st, url, lookup_ok) ==
    IF ~lookup_ok THEN FALSE
    ELSE LET data == FieldPairs(ExecuteSelect(st, url))[1]
         IN  data # <<>> /\ Len(data[1]) > 0

\* job_tracker_v3.check_if_job_exists: data, count = ...execute(), then
\* data and len(data[1]) > 0 (Python's index 1 is the second component)
v3_check_if_job_exists(st, url, lookup_ok) ==
    IF ~lookup_ok THEN FALSE
    ELSE LET data == FieldPairs(ExecuteSelect(st, url))[1]
         IN  data # <<>> /\ Len(data[2]) > 0

exists(variant, st, url, lookup_ok) ==
    IF variant = "greenhouse" THEN gh_check_if_job_exists(st, url, lookup_ok)
    ELSE IF variant = "engine" THEN check_if_job_exists(st, url, lookup_ok)
    ELSE v3_check_if_job_exists(st, url, lookup_ok)

\* the sequences of distinct URLs of up to MaxRows URLs
URLLists ==
    { u \in UNION { [1..k -> {"u/1", "u/2", "u/3"}] : k \in 0..MaxRows } :
        \A i, j \in 1..Len(u) : i # j => u[i] # u[j] }

\* the stores of up to MaxRows rows, one row per URL
Stores ==
    { [i \in 1..Len(urls) |-> StoreRow([Title |-> T_Acme, URL |-> urls[i]])] :
        urls \in URLLists }

ExistsVariants == {"greenhouse", "engine", "v3"}

(***************************************************************************)
(* scrape_google_careers, on what a listing page holds                     *)
(***************************************************************************)
MaxSelectors == 2

\* the hrefs a lookup on the listing page may give, in document order
LinkLists ==
    { <<>>, <<GoogleListing>>, <<"g/1">>, <<"g/2", "g/2">>,
      <<"g/1", GoogleListing, "g/2", "g/1">>, <<"g/3">> }

\* the listing pages: the links of the job elements, of up to MaxSelectors
\* alternative selectors, and the URLs in the page source
ListingPages ==
    { [raises |-> r, elements |-> e, selectors |-> s, source |-> p] :
        r \in {FALSE}, e \in LinkLists,
        s \in UNION { [1..n -> LinkLists] : n \in 0..MaxSelectors },
        p \in LinkLists }
    \cup { [raises |-> TRUE, elements |-> <<>>, selectors |-> <<>>,
            source |-> <<>>] }

(***************************************************************************)
(* get_page_text of the trackers: the element taken as the job content     *)
(***************************************************************************)
\* the 500 of len(text) > 500
min_content_length == 500

MaxSlack == 1

\* the lengths around the threshold
ContentLengths == (min_content_length - MaxSlack)..(min_content_length + MaxSlack)

Letters(n) == [i \in 1..n |-> "a"]

\* what the rendered elements show: n letters, bare or between blanks
ElementTexts ==
    { Letters(n) : n \in ContentLengths }
    \cup { <<" ">> \o Letters(n) \o <<"\n">> : n \in ContentLengths }

\* an element of the page: reading element.text gives its text, or raises
\* when the page has replaced the element since the lookup
StaleElement == [stale |-> TRUE, text |-> <<>>]

PageElements == { [stale |-> FALSE, text |-> t] : t \in ElementTexts } \cup {StaleElement}

\* driver.find_elements(By.CSS_SELECTOR, selector): it raises, or gives the
\* elements that match in document order
SelectorLookups ==
    { [raises |-> TRUE, elements |-> <<>>] }
    \cup { [raises |-> FALSE, elements |-> es] :
             es \in {<<>>} \cup { <<e>> : e \in PageElements }
                    \cup { <<e, f>> : e, f \in PageElements } }

\* driver.find_element(By.TAG_NAME, "body").text
T_Body == <<"b","o","d","y">>

\* the rendered pages: the lookups of two selectors, in the order of
\* job_content_selectors
RenderedPages == { <<first, second>> : first, second \in SelectorLookups }

\* A mutant of is_substantial: len(text) >= 500.
is_substantial_from_threshold(text) == Len(strip(text)) >= min_content_length

\* text = element.text.strip(); len(text) > 500
is_substantial(text) == Len(strip(text)) > min_content_length

\* the loop over the elements of one selector, inside the try: the first
\* substantial element, unless reading an element before it raised
first_substantial(lookup) ==
    LET stops == { i \in 1..Len(lookup.elements) :
                     \/ lookup.elements[i].stale
                     \/ is_substantial(lookup.elements[i].text) }
    IN  IF lookup.raises \/ stops = {} THEN NoneValue
        ELSE IF lookup.elements[Min(stops)].stale THEN NoneValue
        ELSE lookup.elements[Min(stops)].text

\* the loop over job_content_selectors, then text_content: the text of
\* job_content, or of the body
job_content_text(lookups, body) ==
    LET hits == { s \in 1..Len(lookups) : ~IsNone(first_substantial(lookups[s])) }
    IN  IF hits = {} THEN body
        ELSE first_substantial(lookups[Min(hits)])

FnInit ==
    /\ store = <<>>
    /\ run = 0
    /\ entry = "none"
    /\ pc = "idle"
    /\ gh = GhInit
    /\ eng = EngInit
    /\ jb = JbInit
    /\ cand = NoCandidate
    /\ src = NoSource
    /\ hist = NewHist
    /\ atStart = <<>>
    /\ report = [kind |-> "none"]
    /\ acq = AcqIdle
    /\ workers = NoWorkers
    /\ \/ fn \in { Call("clean_text", t) : t \in Texts }
       \/ fn \in { Call("parse_response", [variant |-> v, response |-> r]) :
                     v \in Variants, r \in Responses }
       \/ fn \in { Call("prompt_text", [variant |-> v, text_content |-> t]) :
                     v \in Variants, t \in PageTexts }
       \/ fn \in { Call("extract_details_with_gemini", a) : a \in ParsedAnswers }
       \/ fn \in { Call("is_early_career", t) : t \in Titles }
       \/ fn \in { Call("is_in_usa", l) : l \in Locations }
       \/ fn \in { Call("should_process_job", i) : i \in FilterInputs }
       \/ fn \in { Call("exists", [variant |-> v, store |-> st, url |-> u,
                                  lookup_ok |-> ok]) :
                     v \in ExistsVariants, st \in Stores,
                     u \in {"u/1", "u/2", "u/3"}, ok \in BOOLEAN }
       \/ fn \in { Call("scrape_google_careers", [url |-> GoogleListing, page |-> p]) :
                     p \in ListingPages }
       \/ fn \in { Call("job_content_text", p) : p \in RenderedPages }

\* the cleaning of get_page_text, on a text
F_CleanText ==
    /\ fn.op = "clean_text" /\ ~fn.applied
    /\ fn' = [fn EXCEPT !.applied = TRUE] @@ [out |-> clean_text(fn.arg)]
    /\ UNCHANGED <<pipeline_vars, acq, workers>>

\* the parsing of the service's answer in extract_details_with_gemini
F_ParseResponse ==
    /\ fn.op = "parse_response" /\ ~fn.applied
    /\ fn' = [fn EXCEPT !.applied = TRUE]
               @@ [out |-> parse_response(fn.arg.variant, fn.arg.response)]
    /\ UNCHANGED <<pipeline_vars, acq, workers>>

\* the building of the prompt in extract_details_with_gemini
F_PromptText ==
    /\ fn.op = "prompt_text" /\ ~fn.applied
    /\ fn' = [fn EXCEPT !.applied = TRUE]
               @@ [out |-> prompt_text(fn.arg.variant, fn.arg.text_content)]
    /\ UNCHANGED <<pipeline_vars, acq, workers>>

\* extract_details_with_gemini, from the parsed dictionary on
F_ExtractDetails ==
    /\ fn.op = "extract_details_with_gemini" /\ ~fn.applied
    /\ fn' = [fn EXCEPT !.applied = TRUE]
               @@ [out |-> extract_details_with_gemini(fn.arg, "url")]
    /\ UNCHANGED <<pipeline_vars, acq, workers>>

\* is_early_career(title) of the greenhouse scraper
F_IsEarlyCareer ==
    /\ fn.op = "is_early_career" /\ ~fn.applied
    /\ fn' = [fn EXCEPT !.applied = TRUE]
               @@ [out |-> is_early_career(fn.arg.title)]
    /\ UNCHANGED <<pipeline_vars, acq, workers>>

\* is_in_usa(location) of the greenhouse scraper
F_IsInUsa ==
    /\ fn.op = "is_in_usa" /\ ~fn.applied
    /\ fn' = [fn EXCEPT !.applied = TRUE]
               @@ [out |-> is_in_usa(fn.arg.location)]
    /\ UNCHANGED <<pipeline_vars, acq, workers>>

\* should_process_job(job_details, config) of the engine
F_ShouldProcessJob ==
    /\ fn.op = "should_process_job" /\ ~fn.applied
    /\ fn' = [fn EXCEPT !.applied = TRUE]
               @@ [out |-> should_process_job(fn.arg.job_details, fn.arg.config)]
    /\ UNCHANGED <<pipeline_vars, acq, workers>>

\* check_if_job_exists(url) of the greenhouse scraper, of the engine or of
\* the tracker
F_Exists ==
    /\ fn.op = "exists" /\ ~fn.applied
    /\ fn' = [fn EXCEPT !.applied = TRUE]
               @@ [out |-> exists(fn.arg.variant, fn.arg.store, fn.arg.url,
                                  fn.arg.lookup_ok)]
    /\ UNCHANGED <<pipeline_vars, acq, workers>>

\* scrape_google_careers(url): list(set(job_links)), in any order
F_ScrapeGoogleCareers ==
    /\ fn.op = "scrape_google_careers" /\ ~fn.applied
    /\ \E unique_links \in Orders(scrape_google_careers(fn.arg.url, fn.arg.page)) :
        fn' = [fn EXCEPT !.applied = TRUE] @@ [out |-> unique_links]
    /\ UNCHANGED <<pipeline_vars, acq, workers>>

\* get_page_text of the trackers, from the selectors to text_content
F_JobContentText ==
    /\ fn.op = "job_content_text" /\ ~fn.applied
    /\ fn' = [fn EXCEPT !.applied = TRUE]
               @@ [out |-> job_content_text(fn.arg, T_Body)]
    /\ UNCHANGED <<pipeline_vars, acq, workers>>

FnNext ==
    \/ F_CleanText
    \/ F_ParseResponse
    \/ F_PromptText
    \/ F_ExtractDetails
    \/ F_IsEarlyCareer
    \/ F_IsInUsa
    \/ F_ShouldProcessJob
    \/ F_Exists
    \/ F_ScrapeGoogleCareers
    \/ F_JobContentText

FnSpec == FnInit /\ [][FnNext]_vars

(***************************************************************************)
(* Scripts side by side: the greenhouse scraper and the engine may be      *)
(* started as separate processes on the same table.  Each worker is at     *)
(* one candidate URL; the calls of the store are the only steps they       *)
(* share, and each call is one step.                                       *)
(***************************************************************************)
NumWorkers == 2

WorkerIds == 1..NumWorkers

WorkerURLs == {"w/1", "w/2"}

\* a worker before its existence check: the script it runs, its candidate
NewWorker(script, url) ==
    [script |-> script, url |-> url, pc |-> "check", saw |-> "none",
     job_details |-> NoDetails, error |-> "none", ret |-> FALSE,
     inserted |-> FALSE]

\* the posting the greenhouse worker kept for its URL
WorkerJob(url) ==
    [title |-> T_SoftwareEngineerI, location |-> T_Remote, url |-> url,
     company |-> T_Acme, job_type |-> <<>>]

WorkersInit ==
    /\ store = <<>>
    /\ run = 0
    /\ entry = "none"
    /\ pc = "idle"
    /\ gh = GhInit
    /\ eng = EngInit
    /\ jb = JbInit
    /\ cand = NoCandidate
    /\ src = NoSource
    /\ hist = NewHist
    /\ atStart = <<>>
    /\ report = [kind |-> "none"]
    /\ acq = AcqIdle
    /\ fn = FnIdle
    /\ workers \in [WorkerIds ->
          { NewWorker(s, u) : s \in {"greenhouse", "engine"}, u \in WorkerURLs }]

\* check_if_job_exists(url) of the worker's script
W_Check(w) ==
    /\ workers[w].pc = "check"
    /\ \E lookup_ok \in BOOLEAN :
        LET me == workers[w]
            found == IF me.script = "greenhouse"
                      THEN gh_check_if_job_exists(store, me.url, lookup_ok)
                      ELSE check_if_job_exists(store, me.url, lookup_ok)
        IN  workers' = [workers EXCEPT ![w] = [me EXCEPT
                !.saw = ExistsOutcome(lookup_ok, found),
                !.pc = IF found THEN "done"
                       ELSE IF me.script = "greenhouse" THEN "insert"
                       ELSE "prepare",
                !.job_details = IF ~found /\ me.script = "greenhouse"
                                THEN gh_db_payload(WorkerJob(me.url))
                                ELSE NoDetails]]
    /\ UNCHANGED <<pipeline_vars, acq, fn>>

\* the engine between its check and its save: get_page_text,
\* extract_details_with_gemini, should_process_job
W_Prepare(w) ==
    /\ workers[w].pc = "prepare"
    /\ \E env \in FetchEnvs, answer \in GeminiAnswers :
        LET me == workers[w]
            r == get_page_text(env)
            job_details == extract_details_with_gemini(answer, me.url)
            ok == /\ ~r.raised /\ Truthy(r.text)
                  /\ ~IsNoDetails(job_details)
                  /\ should_process_job(job_details, Config)
        IN  workers' = [workers EXCEPT ![w] = [me EXCEPT
                !.pc = IF ok THEN "insert" ELSE "done",
                !.job_details = IF ok THEN job_details ELSE NoDetails]]
    /\ UNCHANGED <<pipeline_vars, acq, fn>>

\* save_to_supabase of the worker's script: one insert, one answer
W_Insert(w) ==
    /\ workers[w].pc = "insert"
    /\ \E fault \in WriteFaults :
        LET me == workers[w]
            r == IF me.script = "greenhouse"
                 THEN gh_save_to_supabase(store, me.job_details, fault)
                 ELSE save_to_supabase(store, me.job_details, fault)
        IN  /\ store' = r.store
            /\ workers' = [workers EXCEPT ![w] = [me EXCEPT
                    !.pc = "done", !.error = r.error, !.ret = r.ok,
                    !.inserted = TRUE, !.job_details = NoDetails]]
    /\ UNCHANGED <<run, entry, pc, gh, eng, jb, cand, src, hist, atStart, report>>
    /\ UNCHANGED <<acq, fn>>

WorkersNext ==
    \/ \E w \in WorkerIds : W_Check(w)
    \/ \E w \in WorkerIds : W_Prepare(w)
    \/ \E w \in WorkerIds : W_Insert(w)

WorkersSpec == WorkersInit /\ [][WorkersNext]_vars

(***************************************************************************)
(* Properties of the functions                                             *)
(***************************************************************************)
\* C11: the cleaning of a text is idempotent: cleaning what the cleaning
\* gave gives it again, for every text.
C11_CleaningIdempotent ==
    (fn.op = "clean_text" /\ fn.applied) => clean_text(fn.out) = fn.out

\* C11, its case: a text that the cleaning changes into two lines
C11_Witness ==
    /\ fn.op = "clean_text" /\ fn.applied
    /\ fn.arg = <<" ", "a", " ", " ", "a">>
    /\ fn.out = <<"a", "\n", "a">>

\* prose without braces, and code-fence markers
Wrapping(t) == \A i \in 1..Len(t) : t[i] \in {"x", " "} \cup Fences

\* prose and code-fence markers, one well-formed object, prose and markers
WrappedObject(response) ==
    LET s == find(response, "{")
        e == rfind(response, "}")
    IN  /\ s # 0 /\ e > s
        /\ json_loads(SubSeq(response, s, e)).kind = "object"
        /\ Wrapping(SubSeq(response, 1, s - 1))
        /\ Wrapping(SubSeq(response, e + 1, Len(response)))

ObjectIn(response) ==
    json_loads(SubSeq(response, find(response, "{"), rfind(response, "}")))

\* C12: in every variant of the extractor the parsing recovers the object
\* of an answer made of prose and code-fence markers, one well-formed
\* object, and trailing prose: it returns the fields of that object.
C12_AsStated ==
    (/\ fn.op = "parse_response" /\ fn.applied
     /\ WrappedObject(fn.arg.response))
        => fn.out = ObjectIn(fn.arg.response)

\* C12, its case: the variants that search the braces recover the object
\* between prose
C12_Witness ==
    /\ fn.op = "parse_response" /\ fn.applied
    /\ fn.arg.variant = "engine"
    /\ fn.arg.response = <<"x", "{", "m", "}", "x">>
    /\ fn.out = [kind |-> "object", members |-> <<"m">>]

\* C14: the page text inside a request to the extraction service is never
\* longer than the cap of 8000 characters, whatever the acquired text and
\* the variant of the extractor.
C14_AsStated ==
    (fn.op = "prompt_text" /\ fn.applied) => Len(fn.out) <= text_cap

\* C14, its case: the engine cuts a text longer than the cap
C14_Witness ==
    /\ fn.op = "prompt_text" /\ fn.applied
    /\ fn.arg.variant = "engine"
    /\ Len(fn.arg.text_content) > text_cap
    /\ Len(fn.out) = text_cap

\* the object with an explicit null for every key it lacks
WithNulls(answer) ==
    [answer EXCEPT !.details =
        [k \in RequiredKeys |->
            IF k \in DOMAIN answer.details THEN answer.details[k] ELSE NoneValue]]

\* C15: an explicit null is accepted as "not found", whereas an object
\* that lacks one of the five required keys has another outcome: it is not
\* returned as if the key had been null.
C15_AsStated ==
    (/\ fn.op = "extract_details_with_gemini" /\ fn.applied
     /\ DOMAIN fn.arg.details # RequiredKeys)
        => fn.out # extract_details_with_gemini(WithNulls(fn.arg), "url")

\* C15, its case: an object with the five keys, two of them null, gives
\* the fields with None for the two
C15_Witness ==
    /\ fn.op = "extract_details_with_gemini" /\ fn.applied
    /\ fn.arg.details = [job_title |-> T_Acme, company_name |-> T_Acme,
                         location |-> T_Acme, salary_range |-> NoneValue,
                         job_type |-> NoneValue]
    /\ fn.out.Title = T_Acme
    /\ IsNone(fn.out.Salary) /\ IsNone(fn.out.Type)

\* the title has this word of the vocabulary
HasWord(w) == \E i \in 1..Len(fn.arg.words) : fn.arg.words[i] = w

\* C16: the role-level predicate is a first-match decision on the title:
\* a senior marker rejects, even with an early-career keyword or a level
\* token; else an early-career keyword accepts; else a standalone level
\* token accepts; else a basic-role word accepts unless a requirement of
\* 5 to 10+ years is stated; else the title is rejected.  "Senior Software
\* Engineer" is rejected, "Software Engineer II" and "Marketing Intern" are
\* accepted.
C16_RoleLevelDecisionList ==
    (fn.op = "is_early_career" /\ fn.applied) =>
        /\ fn.out = (IF HasWord("Senior") THEN FALSE
                     ELSE IF HasWord("Intern") THEN TRUE
                     ELSE IF HasWord("II") THEN TRUE
                     ELSE IF HasWord("Engineer") THEN ~HasWord("5+ yrs")
                     ELSE FALSE)
        /\ fn.arg.words = <<"Senior", "Software", "Engineer">> => ~fn.out
        /\ fn.arg.words = <<"Software", "Engineer", "II">> => fn.out
        /\ fn.arg.words = <<"Marketing", "Intern">> => fn.out

\* C16, its case: a title with a senior marker and an early-career keyword
\* is rejected
C16_Witness ==
    /\ fn.op = "is_early_career" /\ fn.applied
    /\ fn.arg.words = <<"Senior", "Intern">>
    /\ fn.arg.title = <<"S","e","n","i","o","r"," ","I","n","t","e","r","n">>
    /\ ~fn.out

\* the names of the vocabulary that are "remote" or an entry of the
\* allow-list
AllowListedNames == {"Remote", "REMOTE", "New York"}

\* C17: the geography predicate rejects an empty location, accepts a
\* location that contains "remote" in any case or names an entry of the
\* allow-list, and rejects every other location.
C17_AsStated ==
    (fn.op = "is_in_usa" /\ fn.applied) =>
        fn.out = \E i \in 1..Len(fn.arg.names) : fn.arg.names[i] \in AllowListedNames

\* C17, its case: "Berlin, Germany" is rejected
C17_Witness ==
    /\ fn.op = "is_in_usa" /\ fn.applied
    /\ fn.arg.names = <<"Berlin", "Germany">>
    /\ fn.arg.location = <<"B","e","r","l","i","n",","," ","G","e","r","m","a","n","y">>
    /\ ~fn.out

\* what the words of the title and the lists of the configuration say
ExcludeMatches ==
    fn.arg.config.targeting.exclude_keywords # <<>> /\ HasWord("Senior")

IncludeMatches ==
    fn.arg.config.targeting.include_keywords # <<>> /\ HasWord("Data")

BasicRole == HasWord("Engineer")

LocationListed == fn.arg.job_details.Location = T_Remote

LocationRequired == fn.arg.config.targeting.locations # <<>>

\* C18: in the general keyword predicate a match of an exclude keyword
\* rejects the job even when an include keyword matches; otherwise a match
\* of an include keyword passes the title check; otherwise the title check
\* is the basic-role check; and a non-empty location list then requires
\* that one of its entries is a substring of the location.
C18_KeywordPredicateOrder ==
    (fn.op = "should_process_job" /\ fn.applied /\ fn.arg.words # <<>>) =>
        fn.out = (IF ExcludeMatches THEN FALSE
                  ELSE IF ~IncludeMatches /\ ~BasicRole THEN FALSE
                  ELSE IF LocationRequired THEN LocationListed
                  ELSE TRUE)

\* C18, its case: an exclude keyword and an include keyword both match
C18_Witness ==
    /\ fn.op = "should_process_job" /\ fn.applied
    /\ fn.arg.words = <<"Senior", "Data">>
    /\ fn.arg.config.targeting.exclude_keywords = <<T_Senior>>
    /\ fn.arg.config.targeting.include_keywords = <<T_Data>>
    /\ fn.arg.job_details.Location = T_Remote
    /\ ~fn.out

AllListsEmpty ==
    /\ fn.arg.config.targeting.exclude_keywords = <<>>
    /\ fn.arg.config.targeting.include_keywords = <<>>
    /\ fn.arg.config.targeting.locations = <<>>

\* C19 as stated: an empty list disables its sub-check, so with the three
\* lists empty every job with a non-empty title is accepted.
C19_AsStated ==
    (/\ fn.op = "should_process_job" /\ fn.applied
     /\ fn.arg.words # <<>>
     /\ AllListsEmpty) => fn.out

\* C19: an empty exclude list rejects no title and an empty location list
\* rejects no location; with an empty include list the title check is the
\* basic-role check, so with the three lists empty a job is accepted if
\* and only if its title holds a basic-role word.
C19_EmptyLists ==
    (fn.op = "should_process_job" /\ fn.applied /\ fn.arg.words # <<>>) =>
        /\ fn.arg.config.targeting.exclude_keywords = <<>> =>
              fn.out = /\ IncludeMatches \/ BasicRole
                       /\ LocationRequired => LocationListed
        /\ fn.arg.config.targeting.locations = <<>> =>
              fn.out = /\ ~ExcludeMatches
                       /\ IncludeMatches \/ BasicRole
        /\ fn.arg.config.targeting.include_keywords = <<>> =>
              fn.out = /\ ~ExcludeMatches
                       /\ BasicRole
                       /\ LocationRequired => LocationListed
        /\ AllListsEmpty => fn.out = BasicRole

\* C19, its case: the three lists are empty, the title has a word that a
\* non-empty exclude list would reject and the location is one that a
\* non-empty location list would reject
C19_Witness ==
    /\ fn.op = "should_process_job" /\ fn.applied
    /\ AllListsEmpty
    /\ fn.arg.words = <<"Senior", "Engineer">>
    /\ fn.arg.job_details.Location = T_Berlin
    /\ fn.out

JobLinksIn(hrefs) == Range(hrefs) \ {fn.arg.url}

\* the alternative selectors that give a job link
SelectorsWithLinks ==
    { i \in 1..Len(fn.arg.page.selectors) :
        JobLinksIn(fn.arg.page.selectors[i]) # {} }

\* C25: the links returned for a listing page are those of the job elements
\* if they hold a job link; otherwise those of the first alternative
\* selector that gives one; otherwise those of the scan of the page source;
\* the list returned holds no URL twice and never the URL of the listing
\* page.
C25_FirstStrategyWithLinks ==
    (fn.op = "scrape_google_careers" /\ fn.applied /\ ~fn.arg.page.raises) =>
        LET page == fn.arg.page
            found == { fn.out[i] : i \in 1..Len(fn.out) }
        IN  /\ found =
                 IF JobLinksIn(page.elements) # {}
                 THEN JobLinksIn(page.elements)
                 ELSE IF SelectorsWithLinks # {}
                 THEN JobLinksIn(page.selectors[Min(SelectorsWithLinks)])
                 ELSE JobLinksIn(page.source)
            /\ \A i, j \in 1..Len(fn.out) : fn.out[i] = fn.out[j] => i = j
            /\ fn.arg.url \notin found

\* C25, its case: the job elements hold the listing page only, the first
\* alternative selector nothing, the second two job links, one of them
\* twice: its two links are returned and the page source is not consulted.
C25_Witness ==
    /\ fn.op = "scrape_google_careers" /\ fn.applied
    /\ fn.arg.page.elements = <<GoogleListing>>
    /\ fn.arg.page.selectors = << <<>>, <<"g/1", GoogleListing, "g/2", "g/1">> >>
    /\ fn.arg.page.source = <<"g/3">>
    /\ fn.out = <<"g/2", "g/1">>

\* the number of characters an element shows once trimmed: its texts have
\* blanks at their ends only
Shown(text) == Cardinality({ i \in 1..Len(text) : text[i] = "a" })

\* the elements of the page, as (selector, position), whose trimmed text is
\* longer than 500 characters
LongElements ==
    { p \in (1..Len(fn.arg)) \X (1..2) :
        /\ ~fn.arg[p[1]].raises
        /\ p[2] <= Len(fn.arg[p[1]].elements)
        /\ ~fn.arg[p[1]].elements[p[2]].stale
        /\ Shown(fn.arg[p[1]].elements[p[2]].text) > 500 }

Before(p, q) == p[1] < q[1] \/ (p[1] = q[1] /\ p[2] < q[2])

FirstOf(S) == CHOOSE p \in S : \A q \in S \ {p} : Before(p, q)

\* an element that cannot be read stands before p under the same selector
AfterStale(p) == \E j \in 1..(p[2] - 1) : fn.arg[p[1]].elements[j].stale

Examined == { p \in LongElements : ~AfterStale(p) }

\* C26, as stated: the content is the text of the first element, in
\* selector order and then document order, whose trimmed text is longer
\* than 500 characters, and the body text if there is none.
C26_AsStated ==
    (fn.op = "job_content_text" /\ fn.applied) =>
        fn.out = IF LongElements = {} THEN T_Body
                 ELSE LET p == FirstOf(LongElements)
                      IN  fn.arg[p[1]].elements[p[2]].text

\* C26, amended: the same, among the elements that are examined: an element
\* whose text cannot be read ends the work on its selector, and the
\* elements after it under that selector are passed over.
C26_FirstLongElementExamined ==
    (fn.op = "job_content_text" /\ fn.applied) =>
        fn.out = IF Examined = {} THEN T_Body
                 ELSE LET p == FirstOf(Examined)
                      IN  fn.arg[p[1]].elements[p[2]].text

\* C26, its case: under the first selector an element of exactly 500
\* characters between blanks, then one of 501 characters, which is taken,
\* blanks included, though the second selector has a long element too.
C26_Witness ==
    /\ fn.op = "job_content_text" /\ fn.applied
    /\ Len(fn.arg[1].elements) = 2
    /\ fn.arg[1].elements[1] = [stale |-> FALSE,
                                text |-> <<" ">> \o Letters(500) \o <<"\n">>]
    /\ fn.arg[1].elements[2] = [stale |-> FALSE,
                                text |-> <<" ">> \o Letters(501) \o <<"\n">>]
    /\ fn.arg[2].elements = <<[stale |-> FALSE, text |-> Letters(501)]>>
    /\ fn.out = <<" ">> \o Letters(501) \o <<"\n">>

(***************************************************************************)
(* Properties of the pipelines                                             *)
(***************************************************************************)
StageNames(trace) == [i \in 1..Len(trace) |-> trace[i].stage]

LastStage(trace) == trace[Len(trace)]

\* C1: after any sequence of runs of the three scripts the store holds at
\* most one row per URL; an insert for a URL that is present adds no row.
C1_AtMostOneRowPerURL ==
    \A url \in StoreURLs(store) : Cardinality(RowsFor(store, url)) <= 1

\* C1, its case: an insert was attempted for a URL the store holds
C1_Witness ==
    /\ cand.trace # <<>>
    /\ LastStage(cand.trace).stage = "insert"
    /\ LastStage(cand.trace).out = "duplicate"
    /\ cand.url \in StoreURLs(store)

\* the calls after the existence check
LaterStages == {"acquire", "extract", "insert"}

NoLaterStage(trace) == \A i \in 1..Len(trace) : trace[i].stage \notin LaterStages

\* the existence check of this candidate could read the store: the lookup
\* of the URL went through, or (job boards) the snapshot holds what the
\* store held
ExistenceRead ==
    IF cand.path = "boards" THEN StoreURLs(atStart) \subseteq jb.existing_urls
    ELSE cand.trace[1].out # "error"

InsertEvents == { i \in 1..Len(cand.trace) : cand.trace[i].stage = "insert" }

PassingURLs(jobs) ==
    { j.absolute_url :
        j \in { x \in jobs : /\ ~JobRaises(x)
                             /\ JobPasses(x)
                             /\ x.absolute_url # "" } }

AllPostings == UNION { Range(f) : f \in UNION { Feeds(Companies[c]) : c \in 1..Len(Companies) } }

\* a first run of the structured-API script, on an empty store, in which
\* every store call went through
CleanGreenhouseRun == run = 1 /\ entry = "greenhouse" /\ ~hist.faults

SourceLeft ==
    \/ pc = "gh_wait"
    \/ pc = "e_site" /\ src.path = "boards"
    \/ pc = "done" /\ src.path = "phase3"

Owed ==
    IF src.path = "greenhouse" THEN PassingURLs(src.returned)
    ELSE src.returned

\* C5, as stated: the failure of one candidate stops that candidate only:
\* when a source has been left, every other candidate it returned has gone
\* through the pipeline.
C5_AsStated == SourceLeft => Owed \subseteq src.handled

ContinuingPoints == {"gh_company", "gh_wait", "e_pages", "e_site", "jb_search"}

ConfiguredSources(e) ==
    LET companies == { Source("greenhouse", i) : i \in 1..Len(Companies) }
        pages == { Source("pages", i) : i \in 1..Len(Config.company_career_pages) }
        boards == { Source("boards", i) :
                      i \in { k \in 1..Len(Config.career_sites) :
                                Config.career_sites[k].enabled } }
    IN  IF e = "greenhouse" THEN companies
        ELSE IF e = "engine" THEN pages \cup boards
        ELSE companies \cup pages \cup boards

\* C6: an error in the enumeration of one source leaves that source with
\* no candidate and the run at the loop over the sources; at the end of
\* the run every configured source has been enumerated.
C6_SourceErrorSkipsThatSource ==
    /\ src.failed => /\ src.returned = {}
                     /\ src.handled = {}
                     /\ cand = NoCandidate
                     /\ pc \in ContinuingPoints
    /\ pc # "crashed"
    /\ pc = "done" => hist.enumerated = ConfiguredSources(entry)

\* C6, its case: the first company's request failed and the loop is at
\* the second company
C6_Witness ==
    /\ src.failed /\ src.path = "greenhouse" /\ src.i = 1
    /\ pc = "gh_company" /\ gh.i = 2

StageOrder == <<"exists", "acquire", "extract", "filter", "insert">>

\* the answer of a stage that lets the next stage run; the existence check
\* answers False both for an absent URL and for a lookup that raised
StagePassed(e) ==
    IF e.stage = "exists" THEN e.out \in {"absent", "error"}
    ELSE IF e.stage = "acquire" THEN e.out = "text"
    ELSE IF e.stage = "extract" THEN e.out = "fields"
    ELSE IF e.stage = "filter" THEN e.out = "pass"
    ELSE FALSE

Returned == acq.step \in {"return", "idle"} /\ acq.caller # "none"

\* the first strategy of the call ended in an exception
PrimaryRaised == acq.primary \in {"raised", "raises", "missing"}

\* the shape the statement gives to a call of acquire
FallbackDiscipline ==
    /\ (acq.http # "none") <=> PrimaryRaised
    /\ acq.primary = "ok" => (acq.http = "none" /\ acq.result = 
                                IF acq.caller = "tracker"
                                THEN clean_text(acq.raw) ELSE acq.raw)
    /\ (IsNone(acq.result) \/ acq.raised)
          => (PrimaryRaised /\ acq.http = "failed")

\* C8, as stated: in both get_page_text functions the HTTP request is made
\* exactly when the first strategy raised, a success of the first strategy
\* is returned without HTTP request, and the call fails only when both
\* failed.
C8_AsStated ==
    (Returned /\ acq.caller \in {"tracker", "engine_main"}) => FallbackDiscipline

\* C8, amended: the tracker's get_page_text makes the HTTP request exactly
\* when the browser extraction raised, returns the browser's text without
\* HTTP request otherwise, and returns None only when both failed.  The
\* engine's get_page_text makes the HTTP request exactly when the import
\* of trafilatura fails; a download that gives nothing returns None and
\* any other exception leaves the function, both without HTTP request.
C8_FallbackPerFunction ==
    /\ (Returned /\ acq.caller = "tracker") => FallbackDiscipline
    /\ (acq.step = "fallback") => (acq.caller = "tracker" /\ acq.primary = "raised")
    /\ (Returned /\ acq.caller = "engine_main") =>
          /\ (acq.http # "none") <=> (acq.primary = "missing")
          /\ acq.primary = "nothing" => (IsNone(acq.result) /\ ~acq.raised)
          /\ acq.raised <=> (acq.primary = "raises")
          /\ acq.primary = "ok" => acq.result = acq.raw

\* C8, its case: the browser extraction raised and the HTTP request gave
\* the text
C8_Witness ==
    /\ acq.caller = "tracker" /\ acq.step = "return"
    /\ acq.primary = "raised" /\ acq.http = "ok"
    /\ Truthy(acq.result)

\* C9: a browser opened by a call is closed when the call is back at its
\* caller, and before the HTTP request of the fallback starts; at most one
\* browser is open at any time.
C9_BrowserReleased ==
    /\ acq.open \in {0, 1}
    /\ acq.step \in {"idle", "return", "fallback", "setup", "trafilatura"}
          => acq.open = 0
    /\ acq.open = 1 => acq.step \in {"render", "finally"}

\* C9, its case: a browser was opened, the page raised, the browser is
\* closed and the fallback is about to start
C9_Witness ==
    /\ acq.step = "fallback"
    /\ acq.opened /\ acq.open = 0

\* every line trimmed, no empty line, no run of two spaces
IsNormalized(text) ==
    \/ text = <<>>
    \/ /\ ~IsSpace(text[1])
       /\ ~IsSpace(text[Len(text)])
       /\ \A i \in 1..(Len(text) - 1) :
            /\ text[i] = "\n" => ~IsSpace(text[i + 1])
            /\ text[i + 1] = "\n" => ~IsSpace(text[i])
            /\ ~(text[i] = " " /\ text[i + 1] = " ")

ExtractCalled ==
    /\ Len(cand'.trace) = Len(cand.trace) + 1
    /\ LastStage(cand'.trace).stage = "extract"

\* the URLs for which the answer of the service held no object
Unparsed == hist.unparsed \cup jb.unparsed

\* the service has just answered without an object
AnswerWithoutObject ==
    (hist'.unparsed \ hist.unparsed) \cup (jb'.unparsed \ jb.unparsed) # {}

\* no row was added in this run for a URL whose answer held no object
NothingPersistedFor(urls) ==
    \A u \in urls : u \in StoreURLs(store) => u \in StoreURLs(atStart)

\* C13 as stated: once the answer for a URL held no parseable object, the
\* extraction service is not called again for that URL in the same run, and
\* no record is persisted for it.
C13_AsStated ==
    [][/\ ExtractCalled => cand'.url \notin Unparsed
       /\ NothingPersistedFor(Unparsed)]_vars

\* C13: an answer without a parseable object ends the work on the
\* candidate: the extractor returns None, the loop goes to the next URL
\* without a filter or insert call, and no record is persisted for the URL
\* in that run; in the loop over unique_urls the extractor is not called
\* again for the URL.
C13_ParseFailureEndsThePass ==
    [][/\ AnswerWithoutObject =>
            /\ LastStage(cand'.trace) = Stage("extract", "none")
            /\ pc' \in {"jb_job", "p3_url"}
       /\ (ExtractCalled /\ cand'.path = "phase3") =>
            cand'.url \notin hist.unparsed
       /\ NothingPersistedFor(Unparsed)]_vars

\* C13, its case: the answer for a career-page URL held no object and the
\* loop is at the next URL
C13_Witness ==
    /\ cand.path = "phase3"
    /\ cand.url \in hist.unparsed
    /\ LastStage(cand.trace) = Stage("extract", "none")
    /\ pc = "p3_url"

(***************************************************************************)
(* Properties of the scripts side by side                                  *)
(***************************************************************************)
\* the workers that called the insert and met no other error than the
\* uniqueness conflict
CleanInserts(url) ==
    { w \in WorkerIds : /\ workers[w].url = url
                        /\ workers[w].inserted
                        /\ workers[w].error \in {"none", "duplicate"} }

AtNextCandidate ==
    \/ pc = "gh_job" /\ gh.k <= Len(gh.jobs)
    \/ pc = "jb_job" /\ jb.n <= Len(FirstFive(jb.job_urls))
    \/ pc = "p3_url" /\ eng.todo # {}

\* the loop over the sources is at its head and a source is left
AtNextSource ==
    \/ pc = "gh_company" /\ gh.i <= Len(Companies)
    \/ pc = "e_pages" /\ eng.page_i <= Len(Config.company_career_pages)
    \/ pc = "e_site" /\ eng.site_i <= Len(Config.career_sites)
                     /\ Config.career_sites[eng.site_i].enabled

\* the page of the candidate is about to be requested
AtPageRequest == pc \in {"jb_acquire", "p3_acquire"}

\* C22, as stated: a candidate is taken only after a delay followed the
\* candidate before it, a source only after a delay followed the source
\* before it, and the page of a candidate is requested only after a delay
\* followed the page request of an earlier candidate.
C22_AsStated ==
    /\ AtNextCandidate => hist.since \notin {"candidate", "request"}
    /\ AtNextSource => hist.since = "nothing"
    /\ AtPageRequest => hist.since # "request"

\* C22, the case: in phase 3 the page of a candidate was requested and
\* could not be read, and the page of the next candidate is about to be
\* requested with no time.sleep in between.
C22_Witness ==
    /\ pc = "p3_acquire"
    /\ hist.since = "request"
    /\ cand.path = "phase3"
    /\ Len(cand.trace) = 1

\* C22, what the loops do keep: after a save attempt the delay has run
\* when the next candidate is taken.
C22_DelayAfterSaveAttempt ==
    (AtNextCandidate /\ cand # NoCandidate
        /\ cand.trace[Len(cand.trace)].stage = "insert")
    => hist.since = "nothing"


(***************************************************************************)
(* Properties of the counts                                                *)
(***************************************************************************)
\* every count of candidates the three loops keep: processed_count of
\* process_greenhouse_jobs, new_jobs_found of scrape_career_site and
\* processed_count of main; no loop keeps a count of the skipped or of the
\* failed candidates
CandidatesCounted == gh.processed_count + jb.new_jobs_found + eng.processed_count

\* this step ends the work of a loop on one candidate
CandidateEnds ==
    \/ pc \in {"gh_job", "gh_save"} /\ gh'.k = gh.k + 1
    \/ pc \in {"jb_job", "jb_acquire", "jb_extract", "jb_filter"}
           /\ (jb'.n = jb.n + 1 \/ pc' = "e_site")
    \/ pc \in {"p3_url", "p3_acquire", "p3_extract", "p3_filter", "p3_save"}
           /\ pc' = "p3_url"

\* C23, as stated: each candidate is counted exactly once, as processed,
\* skipped or failed: the step that ends the work on a candidate adds one to
\* the counts, so that at the end they add up to the number of candidates.
C23_AsStated == [][CandidateEnds => CandidatesCounted' = CandidatesCounted + 1]_vars

\* C23, the case: the first job of a company was skipped as a duplicate and
\* no count has moved.
C23_Witness ==
    /\ pc = "gh_job"
    /\ gh.k = 2
    /\ cand.trace = <<Stage("exists", "present")>>
    /\ CandidatesCounted = 0

\* C23, what the counts are: a candidate moves a count exactly when its
\* insert was answered True; every other outcome is counted nowhere.
C23_OnlyInsertsAreCounted ==
    [][CandidateEnds =>
        /\ CandidatesCounted' \in {CandidatesCounted, CandidatesCounted + 1}
        /\ (CandidatesCounted' = CandidatesCounted + 1)
              <=> (Len(store') = Len(store) + 1)]_vars


(***************************************************************************)
(* Properties of the rows                                                  *)
(***************************************************************************)
\* C24: no step of a run deletes a row or changes a field of a row the
\* table holds: the table before the step is a prefix of the table after
\* it, so every row present before a run is present and unchanged after it.
C24_AppendOnly ==
    [][/\ Len(store') >= Len(store)
       /\ \A i \in 1..Len(store) : store'[i] = store[i]]_vars

\* C24, the case: a run that began with rows in the table has ended and
\* has added a row.
C24_Witness ==
    /\ pc = "done"
    /\ Len(atStart) > 0
    /\ Len(store) > Len(atStart)


(***************************************************************************)
(* Properties of the job-board path                                        *)
(***************************************************************************)
\* a job-board candidate that was not in the snapshot, whose page was read
\* and whose extraction gave details with a title, at the call of the filter
AtBoardFilter ==
    /\ pc = "jb_filter"
    /\ cand.path = "boards"
    /\ StageNames(cand.trace) = <<"exists", "acquire", "extract">>

\* C27, as stated: a job-board candidate that is not in the store, whose
\* page is acquired, whose extraction gives a title and which satisfies the
\* targeting filters is inserted and counted in the new jobs of its site.
C27_AsStated ==
    [][(AtBoardFilter /\ should_process_job(jb.job_details, Config))
        => /\ cand.url \in StoreURLs(store')
           /\ jb'.new_jobs_found = jb.new_jobs_found + 1]_vars

\* C27, the case: such a candidate has reached the filter, and the call
\* has raised: nothing was inserted and the site was left.
C27_Witness ==
    /\ pc = "e_site"
    /\ cand.path = "boards"
    /\ StageNames(cand.trace) = <<"exists", "acquire", "extract", "filter">>
    /\ LastStage(cand.trace).out = "raised"
    /\ cand.url \notin StoreURLs(store)


(***************************************************************************)
(* Properties of the existence check                                       *)
(***************************************************************************)
\* the existence check of this candidate could not read the store
LookupFailed ==
    /\ cand.path \in {"greenhouse", "phase3"}
    /\ cand.trace[1] = Stage("exists", "error")

\* the call that follows the existence check of a new candidate
AfterExistsPc == IF cand.path = "greenhouse" THEN "gh_save" ELSE "p3_acquire"

AfterExistsStage == IF cand.path = "greenhouse" THEN "insert" ELSE "acquire"

\* C28: a candidate whose existence check could not read the store is
\* treated as new, stored or not: the check answers False, the loop goes on
\* to the next call for it (the page request on the career-page path, the
\* insert on the structured-API path), and on the job-board path a
\* snapshot that could not be read holds no URL, so that a stored URL counts
\* as absent.
C28_FailsOpen ==
    /\ LookupFailed =>
          IF Len(cand.trace) = 1 THEN pc = AfterExistsPc
          ELSE cand.trace[2].stage = AfterExistsStage
    /\ \A url \in StoreURLs(store) :
          /\ ~check_if_job_exists(store, url, FALSE)
          /\ ~gh_check_if_job_exists(store, url, FALSE)
          /\ url \notin get_existing_job_urls(store, FALSE)
    /\ (cand.path = "boards" /\ cand.url \notin jb.existing_urls
            /\ pc \in {"jb_acquire", "jb_extract", "jb_filter"})
          => cand.trace[1] = Stage("exists", "absent")

\* C28, its case: on the career-page path a URL the store held when the
\* run began met a failing lookup, was acquired, extracted and accepted, and
\* its insert was attempted and refused as a duplicate.
C28_Witness ==
    /\ cand.path = "phase3"
    /\ cand.url \in StoreURLs(atStart)
    /\ StageNames(cand.trace) = <<"exists", "acquire", "extract", "filter", "insert">>
    /\ cand.trace[1].out = "error"
    /\ cand.trace[5].out = "duplicate"


(***************************************************************************)
(* Properties of the totals                                                *)
(***************************************************************************)
\* the rows this run has added to the table
InsertedThisRun == Len(store) - Len(atStart)

\* C29, as stated: the total that run_scraper.main prints is the number of
\* rows inserted during the run over both phases, and the value returned by
\* scrape_all_greenhouse_companies is the number of its successful inserts.
C29_AsStated ==
    /\ (pc = "done" /\ entry = "run_scraper")
          => report.processed = InsertedThisRun
    /\ (pc = "done" /\ entry = "greenhouse")
          => report.processed = InsertedThisRun

\* C29, the case: a run of run_scraper has ended, a career-page job was
\* inserted in its second phase, and the total printed does not count it.
C29_Witness ==
    /\ pc = "done" /\ entry = "run_scraper"
    /\ eng.processed_count > 0
    /\ report.processed < InsertedThisRun

\* C29, the part that holds: the total of the structured-API phase is the
\* number of rows that phase inserted, and the total of run_scraper is that
\* number alone.
C29_PlatformInsertsOnly ==
    /\ (pc = "done" /\ entry = "greenhouse")
          => report.processed = InsertedThisRun
    /\ (pc = "done" /\ entry = "run_scraper")
          => report.processed = InsertedThisRun - eng.processed_count


(***************************************************************************)
(* Properties of the records                                               *)
(***************************************************************************)
\* C30: every row of the table, all of them inserted by the three paths,
\* has a Title that is neither null nor empty and a URL that is not empty.
C30_TitleAndURL ==
    \A i \in 1..Len(store) :
        /\ ~IsNone(store[i].Title) /\ store[i].Title # <<>>
        /\ store[i].URL # ""

\* C30, its case: the table holds a row of the structured-API path and a
\* row of the career-page path, and the candidate at hand went through
\* extraction and was turned down by the filter.
C30_Witness ==
    /\ \E i, j \in 1..Len(store) :
          store[i].URL \in {"gh/1", "gh/2", "gh/3", "gh/4", "gh/5"}
          /\ store[j].URL \in {"g/1", "g/2"}
    /\ cand.path = "phase3"
    /\ LastStage(cand.trace) = Stage("filter", "reject")

====
